---- MODULE Spec2Model ----
(***************************************************************************)
(* A model of the probe engine of the tracepointdebug agent: the per-probe *)
(* token-bucket rate limiter, the probe registry with its hit path, and    *)
(* the HTTP control API (tracepointdebug/control_api.py) that drives it.   *)
(*                                                                         *)
(* Time is counted in ticks, TicksPerSecond ticks to the second.  Token    *)
(* amounts are reals in the program; here they are held in units of        *)
(* 1/TicksPerSecond token, so that `elapsed * rate` is exact for every     *)
(* elapsed time that is a whole number of ticks.                           *)
(***************************************************************************)
EXTENDS Integers, Sequences, FiniteSets, TLC

\* ------------------------------------------------------------------ bounds

TicksPerSecond == 5
MaxTime == 6
MaxCalls == 7
MaxDropped == 3

MaxProbes == 1
MaxHits == 3
MaxClock == 3

Min(a, b) == IF a <= b THEN a ELSE b

\* Ids: 0 is an id no put ever returned; 1, 2, ... are handed out in turn.
Ids == 1..MaxProbes
NoId == 0

\* The (limit_per_second, burst) pairs a limiter is built with.
RLConfigs ==
  { [rate |-> 5, capacity |-> 5], [rate |-> 5, capacity |-> 1],
    [rate |-> 1, capacity |-> 2], [rate |-> 2, capacity |-> 1] }

\* One whole token, in token units.
OneToken == TicksPerSecond

VARIABLES
  now,          \* the clock, in ticks
  limiter,      \* a stand-alone rate limiter: tokens, last_time, dropped, rate, capacity
  calls,        \* consume() calls made on `limiter`
  admitted,     \* ... of which returned True
  rlResult,     \* what the last consume() on `limiter` returned
  lock,         \* the limiter's lock: 0 (free) or the thread that holds it
  tpc,          \* per thread: its place in consume()
  managers,     \* ControlAPI: whether start() got its managers (they are None otherwise)
  sample,       \* the registry's rate-limit settings: limitPerSecond, burst
  point_ids,    \* ControlAPI.point_ids: id -> [type, config]
  nextId,       \* the ids handed out so far (uuid4 never repeats one)
  probes,       \* the registry: id -> probe
  buckets,      \* the rate limiter's buckets, keyed by probe id
  disabledTags, \* the tags currently disabled
  last,         \* the last operation and what it answered or emitted
  fired,        \* per id: hit events emitted
  qhits,        \* per id: qualifying hits so far
  runDropped,   \* per id: hits denied by the rate limiter since the last admitted one
  reqs,         \* per thread: the control API request it is handling, and where it is in it
  reqCount,     \* requests begun so far
  snap,         \* the snapshot collector: the values handed to it, its settings, its output
  sel,          \* the engine selector: the host it runs on, the override, what it returned
  engines,      \* the engine the agent holds and the one the control API holds
  pt,           \* the pytrace engine: _ACTIVE, _CALLBACKS, the threads' trace functions
  broker,       \* the broker manager: its event client, executor queue and workers
  sink,         \* the event sink's store and the test harness's capture of events
  collector,    \* one SnapshotCollector: its cur_size and the snapshots it produced
  ptc,          \* pytrace with its functions cut into steps: the threads inside the hook, _LOCK
  nat,          \* the native engine: cdbg_native as found, _breakpoint_cookies, pytrace behind it
  bms           \* the BrokerManager objects constructed, and who holds which

rlVars == <<limiter, calls, admitted, rlResult>>
concVars == <<lock, tpc>>
reqVars == <<reqs, reqCount>>
\* The parts studied on their own, at rest while the others run.
newVars == <<engines, pt, broker, sink, collector, ptc, nat, bms>>
restVars == <<snap, sel, newVars>>
otherVars == <<reqVars, restVars>>
apiVars == <<managers, sample, point_ids, nextId>>
regVars == <<probes, buckets, disabledTags>>
histVars == <<last, fired, qhits, runDropped>>

\* ------------------------------------------------------------ rate limiter

\* TokenBucket.__init__: a full bucket, stamped with the construction time.
NewBucket(rate, capacity, t) ==
  [ tokens |-> capacity * OneToken, last_time |-> t, dropped |-> 0,
    rate |-> rate, capacity |-> capacity ]

\* (a refill that forgets the capacity)
RefillUncapped(b, t) == b.tokens + (t - b.last_time) * b.rate

\* The lazy refill at call time:
\*   tokens_to_add = (now - last_time) * rate
\*   tokens = min(capacity, tokens + tokens_to_add)
Refill(b, t) == Min(b.capacity * OneToken, b.tokens + (t - b.last_time) * b.rate)

\* (a bucket that asks for more than one whole token)
AdmitsMoreThanOne(tokens) == tokens > OneToken

\* `if self.tokens >= 1`
Admits(tokens) == tokens >= OneToken

\* consume(): refill, stamp, then take one token or count the drop.
\* Yields the bucket after the call and the value returned.
Consume(b, t) ==
  LET filled == Refill(b, t)
      stamped == [b EXCEPT !.tokens = filled, !.last_time = t]
  IN IF Admits(filled)
       THEN [bucket |-> [stamped EXCEPT !.tokens = filled - OneToken], ok |-> TRUE]
       ELSE [bucket |-> [stamped EXCEPT !.dropped = b.dropped + 1], ok |-> FALSE]

\* get_stats()
GetStats(b) ==
  [tokens |-> b.tokens, limit |-> b.rate, burst |-> b.capacity, droppedCount |-> b.dropped]

Threads == {1, 2}

\* A thread that handles no request.
Idle ==
  [ op |-> "none", pc |-> "idle", id |-> NoId, data |-> << >>, listed |-> {}, size |-> 0,
    seen |-> {}, status |-> 0 ]

InitReqs == reqs = [t \in Threads |-> Idle] /\ reqCount = 0

\* The snapshot collector before it is handed anything.
NoSnap ==
  [ input |-> "none", heap |-> << >>, str |-> << >>, max_depth |-> 0, max_props |-> 0,
    max_size |-> 0, max_var_len |-> 0, op |-> "none", out |-> << >> ]

\* No interpreter asked for an engine yet.
NoSel ==
  [ version |-> << >>, Py_GIL_DISABLED |-> FALSE, gil |-> "absent", override |-> << >>,
    op |-> "none", out |-> << >> ]

\* tracepointdebug.start() not called yet.
NoEngines == [agent |-> "none", control |-> "none", first |-> "none"]

\* engine/pytrace.py and engine/native.py as imported: not active, no
\* callback, no trace function on any thread; cdbg tells whether the
\* cdbg_native extension can be imported.
NoPT ==
  [ active |-> FALSE, callbacks |-> << >>, hook |-> [t \in Threads |-> FALSE],
    cdbg |-> FALSE, native |-> FALSE,
    last |-> [op |-> "none", thread |-> 0, outcome |-> "none", pre |-> << >>] ]

MaxWorkers == 1

Workers == 1..MaxWorkers

\* An executor thread with no work item.
IdleWorker == [state |-> "idle", event |-> 0, i |-> 0, posts |-> << >>, sleeps |-> << >>]

\* No BrokerManager yet.
NoBroker ==
  [ client |-> FALSE, retries |-> 0, backoff |-> 0, queue |-> << >>, published |-> 0,
    workers |-> [w \in Workers |-> IdleWorker], done |-> << >> ]

\* The event sink as started, and the EventCapture of an EventSinkServer:
\* nothing received, nothing captured; accepted is the record of what POST
\* /api/events accepted since clear() was last called.
NoSink ==
  [ store |-> << >>, capture |-> << >>, accepted |-> << >>,
    last |-> [op |-> "none", event |-> << >>, status |-> 0] ]

\* No SnapshotCollector constructed yet.
NoCollector ==
  [ heap |-> << >>, max_depth |-> 0, max_props |-> 0, max_size |-> 0, cur_size |-> 0,
    snapshots |-> << >> ]

\* pytrace as imported, seen step by step: no thread is inside the hook and
\* _LOCK is free.
NoPTC ==
  [ active |-> FALSE, callbacks |-> << >>, lock |-> 0,
    hook |-> [t \in Threads |-> FALSE],
    th |-> [t \in Threads |-> [pc |-> "idle", i |-> 0, line |-> 0]],
    removed |-> {}, raced |-> {}, stopped |-> FALSE,
    last |-> [op |-> "none", thread |-> 0, id |-> 0, fn |-> 0, line |-> 0] ]

\* native and pytrace as imported: no cookie, no callback, no hook.  cdbg says
\* whether tracepointdebug.cdbg_native can be imported, hasClear whether it
\* has ClearConditionalBreakpoint.
NoNat ==
  [ cdbg |-> FALSE, hasClear |-> FALSE, started |-> FALSE, cookies |-> {},
    active |-> FALSE, hook |-> FALSE, callbacks |-> {}, everSet |-> {},
    last |-> [op |-> "none", id |-> 0, path |-> "", called |-> {}] ]

\* BrokerManager as imported: __instance is None, nothing constructed; agent
\* and control are the objects the agent and the control API hold (0: none).
NoManagers ==
  [ instance |-> 0, made |-> << >>, agent |-> 0, control |-> 0,
    last |-> [op |-> "none", got |-> 0] ]

\* The parts of the agent other than x as they are before they are used.
NewAtRest(x) ==
  /\ (x = "engines" \/ engines = NoEngines)
  /\ (x = "pt" \/ pt = NoPT)
  /\ (x = "broker" \/ broker = NoBroker)
  /\ (x = "sink" \/ sink = NoSink)
  /\ (x = "collector" \/ collector = NoCollector)
  /\ (x = "ptc" \/ ptc = NoPTC)
  /\ (x = "nat" \/ nat = NoNat)
  /\ (x = "bms" \/ bms = NoManagers)

InitLock == lock = 0 /\ tpc = [t \in Threads |-> "idle"]

InitConc == InitLock /\ InitReqs /\ snap = NoSnap /\ sel = NoSel /\ NewAtRest("")

\* The registry half at rest (the stand-alone limiter is studied alone).
InitIdle ==
  /\ managers = FALSE
  /\ sample = [rate |-> 5, capacity |-> 1]
  /\ point_ids = << >>
  /\ nextId = 1
  /\ probes = << >>
  /\ buckets = << >>
  /\ disabledTags = {}
  /\ last = [op |-> "none", id |-> NoId, status |-> 0, input |-> "", tags |-> {},
             pre |-> {}, events |-> << >>]
  /\ fired = [i \in Ids |-> 0]
  /\ qhits = [i \in Ids |-> 0]
  /\ runDropped = [i \in Ids |-> 0]

InitRL ==
  /\ InitIdle
  /\ now = 0
  /\ \E c \in RLConfigs : limiter = NewBucket(c.rate, c.capacity, 0)
  /\ calls = 0
  /\ admitted = 0
  /\ rlResult = "none"
  /\ InitConc

\* Time passes (time.time() moves on between calls).
Tick ==
  /\ now < MaxTime
  /\ now' = now + 1

RLTick == Tick /\ UNCHANGED <<rlVars, concVars, otherVars, apiVars, regVars, histVars>>

\* One consume() call on the stand-alone limiter, as one step.
RLConsume ==
  /\ calls < MaxCalls
  /\ limiter.dropped < MaxDropped
  /\ LET r == Consume(limiter, now)
     IN /\ limiter' = r.bucket
        /\ rlResult' = IF r.ok THEN "true" ELSE "false"
        /\ admitted' = IF r.ok THEN admitted + 1 ELSE admitted
  /\ calls' = calls + 1
  /\ UNCHANGED <<now, concVars, otherVars, apiVars, regVars, histVars>>

NextRL == RLTick \/ RLConsume

vars == <<now, rlVars, concVars, otherVars, apiVars, regVars, histVars>>

varsRL == vars

SpecRL == InitRL /\ [][NextRL]_varsRL

\* ------------------------------------------- consume() from several threads

\* (a lock that excludes nobody)
LockAlwaysFree(t) == lock = 0 \/ lock # t

\* `with self._lock:` may be entered by t
LockFree(t) == lock = 0

\* A thread calls consume() and comes to wait for the limiter's lock.
CCall(t) ==
  /\ tpc[t] = "idle"
  /\ calls < MaxCalls
  /\ limiter.dropped + Cardinality({u \in Threads : tpc[u] # "idle"}) < MaxDropped
  /\ tpc' = [tpc EXCEPT ![t] = "wait"]
  /\ calls' = calls + 1
  /\ UNCHANGED <<now, lock, limiter, admitted, rlResult>>

\* The thread enters `with self._lock:`.
CAcquire(t) ==
  /\ tpc[t] = "wait"
  /\ LockFree(t)
  /\ lock' = t
  /\ tpc' = [tpc EXCEPT ![t] = "refill"]
  /\ UNCHANGED <<now, limiter, calls, admitted, rlResult>>

\* now = time.time(); tokens = min(capacity, tokens + elapsed * rate); last_time = now
CRefill(t) ==
  /\ tpc[t] = "refill"
  /\ limiter' = [limiter EXCEPT !.tokens = Refill(limiter, now), !.last_time = now]
  /\ tpc' = [tpc EXCEPT ![t] = "check"]
  /\ UNCHANGED <<now, lock, calls, admitted, rlResult>>

\* if self.tokens >= 1
CCheck(t) ==
  /\ tpc[t] = "check"
  /\ tpc' = [tpc EXCEPT ![t] = IF Admits(limiter.tokens) THEN "take" ELSE "deny"]
  /\ UNCHANGED <<now, lock, limiter, calls, admitted, rlResult>>

\* self.tokens -= 1; return True
CTake(t) ==
  /\ tpc[t] = "take"
  /\ limiter' = [limiter EXCEPT !.tokens = limiter.tokens - OneToken]
  /\ admitted' = admitted + 1
  /\ rlResult' = "true"
  /\ lock' = 0
  /\ tpc' = [tpc EXCEPT ![t] = "idle"]
  /\ UNCHANGED <<now, calls>>

\* droppedCount += 1; return False
CDeny(t) ==
  /\ tpc[t] = "deny"
  /\ limiter' = [limiter EXCEPT !.dropped = limiter.dropped + 1]
  /\ rlResult' = "false"
  /\ lock' = 0
  /\ tpc' = [tpc EXCEPT ![t] = "idle"]
  /\ UNCHANGED <<now, calls, admitted>>

CTick == Tick /\ UNCHANGED <<rlVars, concVars>>

NextRLConc ==
  /\ \/ CTick
     \/ \E t \in Threads : CCall(t)
     \/ \E t \in Threads : CAcquire(t)
     \/ \E t \in Threads : CRefill(t)
     \/ \E t \in Threads : CCheck(t)
     \/ \E t \in Threads : CTake(t)
     \/ \E t \in Threads : CDeny(t)
  /\ UNCHANGED <<apiVars, regVars, histVars, otherVars>>

SpecRLConc == InitRL /\ [][NextRLConc]_varsRL

\* ------------------------------------------------------------ the registry

Tags == {"hot"}

\* The file and line a valid request names (tests/test_integration.py).
AppFile == "tests/fixtures/py_app.py"
AppLine == 10

\* A probe as the registry holds it, made from the arguments put_trace_point /
\* put_log_point are called with; never hit.
NewProbe(type, args, t) ==
  [ type |-> type, file |-> args.file, line |-> args.line, lineIsInt |-> args.lineIsInt,
    condition |-> args.condition, tags |-> args.tags, disabled |-> args.disabled,
    expire_count |-> args.expire_count, expire_duration |-> args.expire_duration,
    created_at |-> t, hit_count |-> 0, total_hits |-> 0, rate_limited |-> FALSE ]

\* The tag gate: one of the probe's tags is currently disabled.
TagGated(p) == p.tags \cap disabledTags # {}

\* (an expiration that is never reached)
NeverExpired(p, t) == FALSE

\* hitCount >= hitCountLimit > 0, or elapsed >= durationMsLimit > 0
Expired(p, t) ==
  \/ p.expire_count > 0 /\ p.hit_count >= p.expire_count
  \/ p.expire_duration > 0 /\ t - p.created_at >= p.expire_duration

HasCondition(p) == p.condition # ""

\* (the rate limiter asked before the condition)
HitOutcomeRateFirst(p, b, cond, t) ==
  IF p.disabled \/ TagGated(p) THEN "skipped"
  ELSE IF Expired(p, t) THEN "expired"
  ELSE IF ~Consume(b, t).ok THEN "rate_limited"
  ELSE IF HasCondition(p) /\ cond = "false" THEN "condition_false"
  ELSE IF HasCondition(p) /\ cond = "error" THEN "condition_error"
  ELSE "fired"

\* The gates of the hit path, in their order: lifecycle/tag, expiration,
\* condition, rate limit; what passes them all fires.
HitOutcome(p, b, cond, t) ==
  IF p.disabled \/ TagGated(p) THEN "skipped"
  ELSE IF Expired(p, t) THEN "expired"
  ELSE IF HasCondition(p) /\ cond = "false" THEN "condition_false"
  ELSE IF HasCondition(p) /\ cond = "error" THEN "condition_error"
  ELSE IF ~Consume(b, t).ok THEN "rate_limited"
  ELSE "fired"

HitEventName(p) == IF p.type = "tracepoint" THEN "probe.hit.snapshot" ELSE "probe.hit.logpoint"

Event(name, id, dropped) == [name |-> name, probeId |-> id, droppedCount |-> dropped]

\* (a rate-limit error event for every denied hit)
RateLimitEventsAlways(p, id, b) == << Event("probe.error.rateLimit", id, b.dropped) >>

\* One rate-limit error event on the transition into the denied state, none
\* for the denied hits that follow.
RateLimitEvents(p, id, b) ==
  IF p.rate_limited THEN << >> ELSE << Event("probe.error.rateLimit", id, b.dropped) >>

\* (a condition error that is not reported)
HitEventsSilentError(p, id, b, outcome) ==
  CASE outcome = "fired" -> << Event(HitEventName(p), id, b.dropped) >>
    [] outcome = "rate_limited" -> RateLimitEvents(p, id, b)
    [] OTHER -> << >>

\* What a hit with this outcome emits; b is the bucket after the hit.
HitEvents(p, id, b, outcome) ==
  CASE outcome = "fired" -> << Event(HitEventName(p), id, b.dropped) >>
    [] outcome = "condition_error" -> << Event("probe.error.condition", id, 0) >>
    [] outcome = "rate_limited" -> RateLimitEvents(p, id, b)
    [] OTHER -> << >>

\* The probe after a hit with this outcome.
HitProbe(p, outcome) ==
  CASE outcome = "expired" -> [p EXCEPT !.disabled = TRUE]
    [] outcome = "rate_limited" -> [p EXCEPT !.rate_limited = TRUE]
    [] outcome = "fired" ->
         [p EXCEPT !.hit_count = p.hit_count + 1, !.total_hits = p.total_hits + 1,
                   !.rate_limited = FALSE]
    [] OTHER -> p

\* The bucket after a hit with this outcome: only a hit that reaches the rate
\* limiter calls consume().
HitBucket(b, outcome, t) ==
  IF outcome \in {"rate_limited", "fired"} THEN Consume(b, t).bucket ELSE b

IsHitEvent(e) == e.name \in {"probe.hit.snapshot", "probe.hit.logpoint"}

\* What held of the probe when the hit arrived (kept for the record of the
\* last operation, not read by the hit path).
HitPre(p, b, cond, t) ==
  (IF p.disabled THEN {} ELSE {"enabled"})
  \cup (IF p.tags \cap disabledTags # {} THEN {"gated"} ELSE {})
  \cup (IF \/ p.expire_count > 0 /\ p.hit_count >= p.expire_count
           \/ p.expire_duration > 0 /\ t - p.created_at >= p.expire_duration
          THEN {"expired"} ELSE {})
  \cup (IF p.condition = "" \/ cond = "true" THEN {"cond_ok"} ELSE {})
  \cup (IF b.tokens + (t - b.last_time) * b.rate >= TicksPerSecond THEN {"tokens_ok"} ELSE {})

Qualifying(pre) == {"enabled", "cond_ok", "tokens_ok"} \subseteq pre /\ "gated" \notin pre

CondResults == {"true", "false", "error"}

\* The location of probe id executes on a host thread; its condition, if it has
\* one, evaluates to cond.
Hit(id, cond) ==
  /\ id \in DOMAIN probes
  /\ HasCondition(probes[id]) \/ cond = "true"
  /\ qhits[id] < MaxHits
  /\ buckets[id].dropped < MaxDropped
  /\ LET p == probes[id]
         b == buckets[id]
         outcome == HitOutcome(p, b, cond, now)
         b2 == HitBucket(b, outcome, now)
         evs == HitEvents(p, id, b2, outcome)
         pre == HitPre(p, b, cond, now)
     IN /\ probes' = [probes EXCEPT ![id] = HitProbe(p, outcome)]
        /\ buckets' = [buckets EXCEPT ![id] = b2]
        /\ last' = [op |-> "hit", id |-> id, status |-> 0, input |-> cond, tags |-> {},
                    pre |-> pre, events |-> evs]
        /\ fired' = [fired EXCEPT ![id] =
                       @ + Cardinality({k \in DOMAIN evs : IsHitEvent(evs[k])})]
        /\ qhits' = [qhits EXCEPT ![id] = IF Qualifying(pre) THEN @ + 1 ELSE @]
        /\ runDropped' = [runDropped EXCEPT ![id] =
                            CASE outcome = "rate_limited" -> @ + 1
                              [] outcome = "fired" -> 0
                              [] OTHER -> @]
  /\ UNCHANGED <<now, rlVars, concVars, otherVars, apiVars, disabledTags>>

\* ---------------------------------------------------------- the control API

Response(op, id, status) ==
  [ op |-> op, id |-> id, status |-> status, input |-> "", tags |-> {}, pre |-> {},
    events |-> << >> ]

TagResponse(op, tags) == [Response(op, NoId, 200) EXCEPT !.tags = tags]

WithoutKey(f, k) == [i \in DOMAIN f \ {k} |-> f[i]]

\* put_tracepoint's answer: 400 for a body that is no JSON, that lacks file or
\* line, or whose line is no integer >= 1; 201 otherwise.
put_tracepoint_status(data) ==
  IF ~data.json THEN 400
  ELSE IF ~({"file", "line"} \subseteq data.keys) THEN 400
  ELSE IF ~data.lineIsInt \/ data.line < 1 THEN 400
  ELSE 201

\* put_logpoint's answer: 500 for a body that is no JSON (get_json raises),
\* 400 when file, line or log_expression is missing; 200 otherwise.
put_logpoint_status(data) ==
  IF ~data.json THEN 500
  ELSE IF ~({"file", "line", "log_expression"} \subseteq data.keys) THEN 400
  ELSE 200

\* (expire_duration and expire_count passed in each other's place)
TracePointArgsSwapped(data) ==
  [ file |-> data.file, line |-> data.line, lineIsInt |-> data.lineIsInt,
    expire_duration |-> data.expire_hit_count, expire_count |-> data.expire_duration_ms,
    disabled |-> FALSE, condition |-> data.condition, tags |-> data.tags ]

\* The arguments put_tracepoint calls put_trace_point with.
TracePointArgs(data) ==
  [ file |-> data.file, line |-> data.line, lineIsInt |-> data.lineIsInt,
    expire_duration |-> data.expire_duration_ms, expire_count |-> data.expire_hit_count,
    disabled |-> FALSE, condition |-> data.condition, tags |-> data.tags ]

\* The arguments put_logpoint calls put_log_point with.
LogPointArgs(data) ==
  [ file |-> data.file, line |-> data.line, lineIsInt |-> data.lineIsInt,
    expire_duration |-> data.expire_duration_ms, expire_count |-> data.expire_hit_count,
    disabled |-> FALSE, condition |-> data.condition, tags |-> data.tags ]

\* The tail of both put handlers: a fresh id, the probe handed to the manager
\* (when there is one), the id kept in point_ids.
Register(op, type, data, args, status) ==
  /\ nextId <= MaxProbes
  /\ nextId' = nextId + 1
  /\ IF managers
       THEN /\ probes' = probes @@ (nextId :> NewProbe(type, args, now))
            /\ buckets' = buckets @@ (nextId :> NewBucket(sample.rate, sample.capacity, now))
       ELSE UNCHANGED <<probes, buckets>>
  /\ point_ids' = point_ids @@ (nextId :> [type |-> type, config |-> data])
  /\ last' = Response(op, nextId, status)
  /\ UNCHANGED <<now, rlVars, concVars, otherVars, managers, sample, disabledTags, fired, qhits, runDropped>>

Reject(op, id, status) ==
  /\ last' = Response(op, id, status)
  /\ UNCHANGED <<now, rlVars, concVars, otherVars, apiVars, regVars, fired, qhits, runDropped>>

\* The managers' put refuses a configuration with an empty file or with a line
\* that is no integer >= 1; the handler calls it inside its try block, before
\* it stores the id.
ManagerAccepts(args) == args.file # "" /\ args.lineIsInt /\ args.line >= 1

\* The handler's answer once its own checks have passed with status ok: 500
\* when the manager, if there is one, raises on the configuration.
AfterManager(ok, args) == IF managers /\ ~ManagerAccepts(args) THEN 500 ELSE ok

\* POST /tracepoints
PutTracepoint(data) ==
  IF put_tracepoint_status(data) # 201
    THEN Reject("put_tracepoint", NoId, put_tracepoint_status(data))
  ELSE IF AfterManager(201, TracePointArgs(data)) # 201
    THEN Reject("put_tracepoint", NoId, 500)
  ELSE Register("put_tracepoint", "tracepoint", data, TracePointArgs(data), 201)

\* POST /logpoints
PutLogpoint(data) ==
  IF put_logpoint_status(data) # 200
    THEN Reject("put_logpoint", NoId, put_logpoint_status(data))
  ELSE IF AfterManager(200, LogPointArgs(data)) # 200
    THEN Reject("put_logpoint", NoId, 500)
  ELSE Register("put_logpoint", "logpoint", data, LogPointArgs(data), 200)

\* The managers' enable_tag / disable_tag: the tag gate is opened or closed,
\* no probe's own flag is touched.
enable_tag(tags) == disabledTags \ tags

disable_tag(tags) == disabledTags \cup tags

\* POST /tags/enable
EnableTags(req) ==
  IF ~req.hasTags THEN Reject("enable_tags", NoId, 400)
  ELSE /\ disabledTags' = IF managers THEN enable_tag(req.tags) ELSE disabledTags
       /\ last' = TagResponse("enable_tags", req.tags)
       /\ UNCHANGED <<now, rlVars, concVars, otherVars, apiVars, probes, buckets, fired, qhits, runDropped>>

\* (the body of enable_tags pasted into disable_tags, the call not changed)
DisableTagsPasted(req) ==
  IF ~req.hasTags THEN Reject("disable_tags", NoId, 400)
  ELSE /\ disabledTags' = IF managers THEN enable_tag(req.tags) ELSE disabledTags
       /\ last' = TagResponse("disable_tags", req.tags)
       /\ UNCHANGED <<now, rlVars, concVars, otherVars, apiVars, probes, buckets, fired, qhits, runDropped>>

\* POST /tags/disable
DisableTags(req) ==
  IF ~req.hasTags THEN Reject("disable_tags", NoId, 400)
  ELSE /\ disabledTags' = IF managers THEN disable_tag(req.tags) ELSE disabledTags
       /\ last' = TagResponse("disable_tags", req.tags)
       /\ UNCHANGED <<now, rlVars, concVars, otherVars, apiVars, probes, buckets, fired, qhits, runDropped>>

\* The answer of the three handlers that name a point: 400 without an id, 404
\* for an id point_ids does not hold, 200 otherwise.
point_status(req) ==
  IF ~req.hasId THEN 400
  ELSE IF req.id \notin DOMAIN point_ids THEN 404
  ELSE 200

SetDisabled(id, d) ==
  IF managers /\ id \in DOMAIN probes THEN [probes EXCEPT ![id].disabled = d] ELSE probes

\* POST /points/enable
EnablePoint(req) ==
  IF point_status(req) # 200 THEN Reject("enable_point", req.id, point_status(req))
  ELSE /\ probes' = SetDisabled(req.id, FALSE)
       /\ last' = Response("enable_point", req.id, 200)
       /\ UNCHANGED <<now, rlVars, concVars, otherVars, apiVars, buckets, disabledTags, fired, qhits, runDropped>>

\* POST /points/disable
DisablePoint(req) ==
  IF point_status(req) # 200 THEN Reject("disable_point", req.id, point_status(req))
  ELSE /\ probes' = SetDisabled(req.id, TRUE)
       /\ last' = Response("disable_point", req.id, 200)
       /\ UNCHANGED <<now, rlVars, concVars, otherVars, apiVars, buckets, disabledTags, fired, qhits, runDropped>>

\* (a remove that leaves the id in point_ids)
KeepPointIds(id) == point_ids

\* `del self.point_ids[point_id]`
DelPointId(id) == WithoutKey(point_ids, id)

\* POST /points/remove
RemovePoint(req) ==
  IF point_status(req) # 200 THEN Reject("remove_point", req.id, point_status(req))
  ELSE /\ probes' = IF managers THEN WithoutKey(probes, req.id) ELSE probes
       /\ buckets' = IF managers THEN WithoutKey(buckets, req.id) ELSE buckets
       /\ point_ids' = DelPointId(req.id)
       /\ last' = Response("remove_point", req.id, 200)
       /\ UNCHANGED <<now, rlVars, concVars, otherVars, managers, sample, nextId, disabledTags,
                      fired, qhits, runDropped>>

\* The condition an entry of GET /points made from a manager's probe shows: a
\* tracepoint's entry has a "condition" key, a logpoint's entry has none (it
\* has "log_expression" in its place), so nothing is shown.
ListedCondition(p) == IF p.type = "tracepoint" THEN p.condition ELSE ""

\* GET /points: the manager's enabled probes, then every id of point_ids the
\* manager did not list, shown as enabled.
get_points ==
  LET listed == {i \in DOMAIN probes : managers /\ ~probes[i].disabled}
  IN { [id |-> i, type |-> probes[i].type, file |-> probes[i].file, line |-> probes[i].line,
        enabled |-> ~probes[i].disabled, tags |-> probes[i].tags,
        condition |-> ListedCondition(probes[i])] : i \in listed }
     \cup
     { [id |-> i, type |-> point_ids[i].type, file |-> point_ids[i].config.file,
        line |-> point_ids[i].config.line, enabled |-> TRUE,
        tags |-> point_ids[i].config.tags,
        condition |-> point_ids[i].config.condition] : i \in DOMAIN point_ids \ listed }

\* -------------------------------------------------------------- requests

PutRequest(keys, file, line, lineIsInt, condition, tags, ehc, edm) ==
  [ json |-> TRUE, keys |-> keys, file |-> file, line |-> line, lineIsInt |-> lineIsInt,
    condition |-> condition, tags |-> tags, expire_hit_count |-> ehc,
    expire_duration_ms |-> edm ]

AllKeys == {"file", "line", "log_expression"}

\* Well-formed puts, varied in what the hit path reads.  Durations are in ticks.
HitPathRequests ==
  { PutRequest(AllKeys, AppFile, AppLine, TRUE, c, tg, n, d) :
      c \in {"", "a * b > 8"}, tg \in {{}, {"hot"}}, n \in {0, 2}, d \in {0, 2} }

\* Logpoints go down the same hit path; fewer of them are tried.
LogpointRequests ==
  { PutRequest(AllKeys, AppFile, AppLine, TRUE, c, {"hot"}, n, 0) :
      c \in {"", "a * b > 8"}, n \in {0, 2} }

TagRequests == { [hasTags |-> TRUE, tags |-> {tg}] : tg \in Tags }

PointRequests == { [hasId |-> TRUE, id |-> i] : i \in Ids \cup {NoId} }

Samples == { [rate |-> 5, capacity |-> 1], [rate |-> 5, capacity |-> 2] }

Init ==
  /\ now = 0
  /\ limiter = NewBucket(5, 1, 0)
  /\ calls = 0
  /\ admitted = 0
  /\ rlResult = "none"
  /\ InitConc
  /\ managers \in BOOLEAN
  /\ sample \in Samples
  /\ point_ids = << >>
  /\ nextId = 1
  /\ probes = << >>
  /\ buckets = << >>
  /\ disabledTags = {}
  /\ last = Response("none", NoId, 0)
  /\ fired = [i \in Ids |-> 0]
  /\ qhits = [i \in Ids |-> 0]
  /\ runDropped = [i \in Ids |-> 0]

\* Time passes between two operations.
Clock ==
  /\ now < MaxClock
  /\ now' = now + 1
  /\ last' = Response("tick", NoId, 0)
  /\ UNCHANGED <<rlVars, concVars, otherVars, apiVars, regVars, fired, qhits, runDropped>>

Next ==
  \/ Clock
  \/ \E data \in HitPathRequests : PutTracepoint(data)
  \/ \E data \in LogpointRequests : PutLogpoint(data)
  \/ \E req \in TagRequests : EnableTags(req)
  \/ \E req \in TagRequests : DisableTags(req)
  \/ \E req \in PointRequests : EnablePoint(req)
  \/ \E req \in PointRequests : DisablePoint(req)
  \/ \E req \in PointRequests : RemovePoint(req)
  \/ \E id \in Ids, cond \in CondResults : Hit(id, cond)

Spec == Init /\ [][Next]_vars

\* ------------------------------------------------------- hit path: claims

\* The put request a registered probe was made from.
Config(id) == point_ids[id].config

\* A step that is a hit on probe id.
HitStep(id) == last'.op = "hit" /\ last'.id = id /\ id \in DOMAIN probes

\* The events a hit step emitted, and the hit events among them.
Emitted == last'.events

HitEventsOf(evs) == {k \in DOMAIN evs : IsHitEvent(evs[k])}

\* C1: for a probe put with expire_hit_count = N > 0 (and no duration limit),
\* the hit events emitted are min(q, N), q the qualifying hits so far (probe
\* enabled, not tag-gated, condition and tokens admitting): N + 1 qualifying
\* hits emit exactly N events, and a qualifying hit after the N-th emits no
\* event and leaves the probe disabled.
C1_ExpireHitCount ==
  \A id \in DOMAIN probes :
    (Config(id).expire_hit_count > 0 /\ Config(id).expire_duration_ms = 0) =>
      /\ fired[id] = Min(qhits[id], Config(id).expire_hit_count)
      /\ (/\ last.op = "hit" /\ last.id = id /\ Qualifying(last.pre)
          /\ qhits[id] > Config(id).expire_hit_count)
           => (last.events = << >> /\ probes[id].disabled)

\* C1 witness: N = 2, three qualifying hits, two events, the third hit just
\* made, the probe disabled.
C1_Witness ==
  \E id \in DOMAIN probes :
    /\ Config(id).expire_hit_count = 2 /\ Config(id).expire_duration_ms = 0
    /\ qhits[id] = 3 /\ fired[id] = 2
    /\ last.op = "hit" /\ last.id = id /\ Qualifying(last.pre)
    /\ last.events = << >> /\ probes[id].disabled

\* The probe has reached the expiration its put asked for: it has emitted
\* expire_hit_count hit events, or expire_duration_ms have passed since it
\* was created.
ReachedExpiration(id) ==
  \/ Config(id).expire_hit_count > 0 /\ fired[id] >= Config(id).expire_hit_count
  \/ /\ Config(id).expire_duration_ms > 0
     /\ now - probes[id].created_at >= Config(id).expire_duration_ms

C4_GateOrder ==
  [][ \A id \in Ids :
        HitStep(id) =>
          LET pre == last'.pre
              open == "enabled" \in pre /\ "gated" \notin pre
          IN /\ ~open => (probes'[id] = probes[id] /\ buckets'[id] = buckets[id]
                            /\ Emitted = << >>)
             /\ (open /\ "expired" \in pre) => (buckets'[id] = buckets[id] /\ Emitted = << >>)
             /\ "cond_ok" \notin pre =>
                  (buckets'[id] = buckets[id] /\ HitEventsOf(Emitted) = {})
             /\ (open /\ "expired" \notin pre /\ "cond_ok" \in pre) =>
                  /\ buckets'[id].last_time = now
                  /\ ("tokens_ok" \in pre <=> HitEventsOf(Emitted) # {})
             /\ IF HitEventsOf(Emitted) # {}
                  THEN /\ Cardinality(HitEventsOf(Emitted)) = 1
                       /\ probes'[id].hit_count = probes[id].hit_count + 1
                       /\ probes'[id].total_hits = probes[id].total_hits + 1
                       /\ buckets'[id].tokens + TicksPerSecond
                            = Min(buckets[id].capacity * TicksPerSecond,
                                  buckets[id].tokens
                                    + (now - buckets[id].last_time) * buckets[id].rate)
                  ELSE /\ probes'[id].hit_count = probes[id].hit_count
                       /\ probes'[id].total_hits = probes[id].total_hits ]_vars

\* C4 witness: a hit whose condition was false came to an enabled, open,
\* unexpired probe with a token in its bucket after two hits had fired: it
\* took no token and counted nothing.
C4_Witness ==
  \E id \in DOMAIN probes :
    /\ last.op = "hit" /\ last.id = id /\ last.input = "false"
    /\ last.pre = {"enabled", "tokens_ok"}
    /\ probes[id].hit_count = 2 /\ buckets[id].tokens >= TicksPerSecond
    /\ last.events = << >>

C5_BurstThenRefill ==
  [][ /\ (now' = 0 => admitted' = Min(calls', limiter'.capacity))
      /\ (calls' = calls + 1 /\ (now - limiter.last_time) * limiter.rate >= TicksPerSecond
            => rlResult' = "true") ]_varsRL

\* C5 witness: R = 5, B = 5: five admitted, the sixth denied, and the seventh,
\* made one tick (200 ms) later, admitted.
C5_Witness ==
  /\ limiter.rate = 5 /\ limiter.capacity = 5
  /\ calls = 7 /\ admitted = 6 /\ limiter.dropped = 1
  /\ now * limiter.rate >= TicksPerSecond /\ rlResult = "true"

\* C6: 0 <= tokens <= capacity after every step, and a denied consume()
\* leaves the tokens at their refilled value and adds exactly one to
\* droppedCount.
C6_TokensWithinCapacity ==
  [][ /\ 0 <= limiter'.tokens
      /\ limiter'.tokens <= limiter'.capacity * TicksPerSecond
      /\ (calls' = calls + 1 /\ rlResult' = "false" =>
            /\ limiter'.tokens =
                 Min(limiter.capacity * TicksPerSecond,
                     limiter.tokens + (now - limiter.last_time) * limiter.rate)
            /\ limiter'.dropped = limiter.dropped + 1) ]_varsRL

\* C6 witness: a denied call that found a partly refilled bucket, after a
\* full bucket had sat through a tick (where the cap matters).
C6_Witness ==
  /\ rlResult = "false" /\ limiter.dropped >= 1
  /\ limiter.tokens > 0 /\ limiter.tokens < TicksPerSecond
  /\ admitted > limiter.capacity

\* C7: under every interleaving of consume() calls from several threads, the
\* calls admitted never exceed the tokens available: the burst the bucket
\* started with plus what the elapsed time has refilled.
C7_NoOverAdmission ==
  /\ admitted * TicksPerSecond <= limiter.capacity * TicksPerSecond + now * limiter.rate
  /\ limiter.tokens >= 0

\* C7 witness: two threads are in consume() at once, one holding the lock
\* and about to test the tokens, the other waiting for the lock; the burst
\* has been admitted, a call has been denied and the bucket is empty.
C7_Witness ==
  /\ \E t, u \in Threads : t # u /\ tpc[t] = "check" /\ lock = t /\ tpc[u] = "wait"
  /\ admitted >= limiter.capacity /\ limiter.dropped >= 1
  /\ limiter.tokens < TicksPerSecond

\* --------------------------------------------- the control API: requests

\* A body that is no JSON.
NotJson ==
  [ json |-> FALSE, keys |-> {}, file |-> "", line |-> 0, lineIsInt |-> FALSE,
    condition |-> "", tags |-> {}, expire_hit_count |-> 0, expire_duration_ms |-> 0 ]

\* The keys a body holds: all of them, or all but one.
KeySets == {AllKeys} \cup { AllKeys \ {k} : k \in AllKeys }

\* The values of "line": integers on both sides of 1, and a value that is no
\* integer (the string "ten", shown with line 0).
Lines ==
  { [line |-> n, isInt |-> TRUE] : n \in {-1, 0, 1, AppLine} }
    \cup { [line |-> 0, isInt |-> FALSE] }

\* Put bodies, well-formed and not.  A key the body lacks has no value.
ApiPutRequests ==
  {NotJson} \cup
  { PutRequest(k, IF "file" \in k THEN f ELSE "",
               IF "line" \in k THEN l.line ELSE 0,
               IF "line" \in k THEN l.isInt ELSE FALSE, "", {}, 0, 0) :
      k \in KeySets, f \in {"", AppFile}, l \in Lines }

ApiTagRequests ==
  { [hasTags |-> TRUE, tags |-> {tg}] : tg \in Tags } \cup { [hasTags |-> FALSE, tags |-> {}] }

ApiPointRequests ==
  { [hasId |-> TRUE, id |-> i] : i \in Ids \cup {NoId} } \cup { [hasId |-> FALSE, id |-> NoId] }

NextAPI ==
  \/ Clock
  \/ \E data \in ApiPutRequests : PutTracepoint(data)
  \/ \E data \in ApiPutRequests : PutLogpoint(data)
  \/ \E req \in ApiTagRequests : EnableTags(req)
  \/ \E req \in ApiTagRequests : DisableTags(req)
  \/ \E req \in ApiPointRequests : EnablePoint(req)
  \/ \E req \in ApiPointRequests : DisablePoint(req)
  \/ \E req \in ApiPointRequests : RemovePoint(req)
  \/ \E id \in Ids : Hit(id, "true")

SpecAPI == Init /\ [][NextAPI]_vars

\* ----------------------------------------------- the control API: claims

\* The id was given out by a put and has been removed since.
Removed(id) == id < nextId /\ id \notin DOMAIN point_ids

\* The ids GET /points shows.
ListedIds == { r.id : r \in get_points }

PointOps == {"enable_point", "disable_point", "remove_point"}

\* C9: a remove of an id the registry does not hold answers 404 and changes
\* nothing, each time it is made; a remove that answers 200 takes the id out of
\* the registry; and from then on enable, disable and remove of that id answer
\* 404, the id is not in the list GET /points shows, and no hit of that probe
\* happens or emits an event.
C9_RemoveIsFinal ==
  [][ /\ (last'.op = "remove_point" /\ last'.status # 400 /\ last'.id \notin DOMAIN point_ids)
          => (last'.status = 404 /\ UNCHANGED <<apiVars, regVars, fired>>)
      /\ (last'.op = "remove_point" /\ last'.status = 200)
          => (last'.id \in DOMAIN point_ids /\ last'.id \notin DOMAIN point_ids'
              /\ last'.id \notin DOMAIN probes')
      /\ \A id \in Ids :
           Removed(id) =>
             /\ Removed(id)'
             /\ id \notin ListedIds'
             /\ id \notin DOMAIN probes'
             /\ fired'[id] = fired[id]
             /\ ~(last'.op = "hit" /\ last'.id = id)
             /\ (last'.op \in PointOps /\ last'.status # 400 /\ last'.id = id)
                  => last'.status = 404 ]_vars

\* C9 witness: a probe that fired was removed, and an enable of its id has
\* just been answered 404.
C9_Witness ==
  /\ last.op = "enable_point" /\ last.status = 404
  /\ last.id \in Ids /\ Removed(last.id) /\ fired[last.id] >= 1

\* A configuration names a place in a source file.
ValidLocation(c) == c.file # "" /\ c.lineIsInt /\ c.line >= 1

\* C10 as claimed: every probe the registry holds, tracepoint or logpoint, has
\* a non-empty file and an integer line >= 1, a put without them having been
\* rejected.
C10_Claimed ==
  /\ \A id \in DOMAIN point_ids :
       /\ {"file", "line"} \subseteq point_ids[id].config.keys
       /\ ValidLocation(point_ids[id].config)
  /\ \A id \in DOMAIN probes : ValidLocation(probes[id])
  /\ \A r \in get_points : r.file # "" /\ r.line >= 1

\* C10 witness: a logpoint with line 0 is in point_ids, its put answered 200.
C10_Witness ==
  /\ last.op = "put_logpoint" /\ last.status = 200
  /\ last.id \in DOMAIN point_ids
  /\ point_ids[last.id].type = "logpoint"
  /\ point_ids[last.id].config.line = 0 /\ point_ids[last.id].config.lineIsInt

\* The entries of GET /points for an id.
Lookup(id) == { r \in get_points : r.id = id }

\* C11 as claimed: every id a put returned and no remove has taken is found in
\* GET /points, and the entry found shows the file, line, condition and tags of
\* the put's config.
C11_Claimed ==
  \A id \in DOMAIN point_ids :
    /\ Lookup(id) # {}
    /\ \A r \in Lookup(id) :
         /\ r.file = Config(id).file /\ r.line = Config(id).line
         /\ r.condition = Config(id).condition /\ r.tags = Config(id).tags

\* C11 witness: a logpoint put with a condition is listed from its manager, and
\* the entry shows no condition.
C11_Witness ==
  \E id \in DOMAIN point_ids :
    /\ last.op = "put_logpoint" /\ last.id = id /\ last.status = 200
    /\ Config(id).condition = "a * b > 8"
    /\ \E r \in Lookup(id) : r.condition = "" /\ r.file = Config(id).file

\* ------------------------------- the control API under concurrent requests
\* Flask serves each request on a thread of its own; the handlers share
\* point_ids and the managers and take no lock.  A handler is cut where it
\* touches shared state; each manager call is one step.

MaxPuts == 2
MaxReqs == 4

\* The ids the concurrent puts are given.
PutIds == 1..MaxPuts

ConcRequests ==
  { PutRequest(AllKeys, AppFile, AppLine, TRUE, "", tg, 0, 0) : tg \in {{}, {"hot"}} }

\* A thread takes a request.
Begin(t, op, id, data) ==
  /\ reqs[t].pc = "idle"
  /\ reqCount < MaxReqs
  /\ reqCount' = reqCount + 1
  /\ reqs' = [reqs EXCEPT ![t] = [Idle EXCEPT !.op = op, !.pc = "begun", !.id = id, !.data = data]]
  /\ UNCHANGED <<now, rlVars, concVars, apiVars, regVars, histVars, restVars>>

\* The thread's handler returns.
Return(t, status) == [reqs[t] EXCEPT !.pc = "idle", !.status = status]

\* (a generator that returns again the id of the call before)
StalePointId == IF nextId > 1 THEN nextId - 1 ELSE nextId

\* _generate_point_id: uuid4, an id no other call returns.
FreshPointId == nextId

\* put_tracepoint up to the manager's put: a fresh id, the probe handed to the
\* manager.
PutManager(t) ==
  /\ reqs[t].op = "put_tracepoint" /\ reqs[t].pc = "begun"
  /\ nextId <= MaxPuts
  /\ LET id == FreshPointId
     IN /\ reqs' = [reqs EXCEPT ![t].id = id, ![t].pc = "store"]
        /\ IF managers
             THEN /\ probes' = probes @@ (id :> NewProbe("tracepoint", TracePointArgs(reqs[t].data), now))
                  /\ buckets' = buckets @@ (id :> NewBucket(sample.rate, sample.capacity, now))
             ELSE UNCHANGED <<probes, buckets>>
  /\ nextId' = nextId + 1
  /\ UNCHANGED <<now, rlVars, lock, tpc, reqCount, managers, sample, point_ids, disabledTags, histVars, restVars>>

\* self.point_ids[point_id] = {...}; return 201
PutStore(t) ==
  /\ reqs[t].op = "put_tracepoint" /\ reqs[t].pc = "store"
  /\ point_ids' = [i \in DOMAIN point_ids \cup {reqs[t].id} |->
                     IF i = reqs[t].id THEN [type |-> "tracepoint", config |-> reqs[t].data]
                     ELSE point_ids[i]]
  /\ reqs' = [reqs EXCEPT ![t] = Return(t, 201)]
  /\ UNCHANGED <<now, rlVars, lock, tpc, reqCount, managers, sample, nextId, regVars, histVars, restVars>>

\* remove_point: `if point_id not in self.point_ids` answers 404.
RemoveCheck(t) ==
  /\ reqs[t].op = "remove_point" /\ reqs[t].pc = "begun"
  /\ reqs' = [reqs EXCEPT ![t] =
                IF reqs[t].id \in DOMAIN point_ids THEN [@ EXCEPT !.pc = "manager"]
                ELSE Return(t, 404)]
  /\ UNCHANGED <<now, rlVars, lock, tpc, reqCount, apiVars, regVars, histVars, restVars>>

\* remove_point: the manager's remove.
RemoveManager(t) ==
  /\ reqs[t].op = "remove_point" /\ reqs[t].pc = "manager"
  /\ probes' = IF managers THEN WithoutKey(probes, reqs[t].id) ELSE probes
  /\ buckets' = IF managers THEN WithoutKey(buckets, reqs[t].id) ELSE buckets
  /\ reqs' = [reqs EXCEPT ![t].pc = "del"]
  /\ UNCHANGED <<now, rlVars, lock, tpc, reqCount, apiVars, disabledTags, histVars, restVars>>

\* remove_point: `del self.point_ids[point_id]` raises KeyError when the id is
\* no longer there; the handler's except answers 500.
RemoveDel(t) ==
  /\ reqs[t].op = "remove_point" /\ reqs[t].pc = "del"
  /\ IF reqs[t].id \in DOMAIN point_ids
       THEN /\ point_ids' = DelPointId(reqs[t].id)
            /\ reqs' = [reqs EXCEPT ![t] = Return(t, 200)]
       ELSE /\ reqs' = [reqs EXCEPT ![t] = Return(t, 500)]
            /\ UNCHANGED point_ids
  /\ UNCHANGED <<now, rlVars, lock, tpc, reqCount, managers, sample, nextId, regVars, histVars, restVars>>

\* get_points: the managers list their enabled probes.
ListManagers(t) ==
  /\ reqs[t].op = "get_points" /\ reqs[t].pc = "begun"
  /\ reqs' = [reqs EXCEPT ![t].listed = {i \in DOMAIN probes : managers /\ ~probes[i].disabled},
                          ![t].pc = "for"]
  /\ UNCHANGED <<now, rlVars, lock, tpc, reqCount, apiVars, regVars, histVars, restVars>>

\* get_points: `for point_id, point_info in self.point_ids.items()` makes its
\* iterator, which notes the size of the dict.
ListIter(t) ==
  /\ reqs[t].op = "get_points" /\ reqs[t].pc = "for"
  /\ reqs' = [reqs EXCEPT ![t].size = Cardinality(DOMAIN point_ids), ![t].seen = {},
                          ![t].pc = "next"]
  /\ UNCHANGED <<now, rlVars, lock, tpc, reqCount, apiVars, regVars, histVars, restVars>>

\* get_points: the iterator's next.  A dict whose size is no longer the one
\* noted raises RuntimeError (the handler's except answers 500); otherwise the
\* next item is visited, or the loop ends and the handler answers 200.
ListNext(t) ==
  /\ reqs[t].op = "get_points" /\ reqs[t].pc = "next"
  /\ IF Cardinality(DOMAIN point_ids) # reqs[t].size
       THEN reqs' = [reqs EXCEPT ![t] = Return(t, 500)]
     ELSE IF DOMAIN point_ids \ reqs[t].seen # {}
       THEN \E i \in DOMAIN point_ids \ reqs[t].seen :
              reqs' = [reqs EXCEPT ![t].seen = @ \cup {i}]
     ELSE reqs' = [reqs EXCEPT ![t] = Return(t, 200)]
  /\ UNCHANGED <<now, rlVars, lock, tpc, reqCount, apiVars, regVars, histVars, restVars>>

NextAPIConc ==
  \/ \E t \in Threads, data \in ConcRequests : Begin(t, "put_tracepoint", NoId, data)
  \/ \E t \in Threads, id \in PutIds : Begin(t, "remove_point", id, << >>)
  \/ \E t \in Threads : Begin(t, "get_points", NoId, << >>)
  \/ \E t \in Threads : PutManager(t)
  \/ \E t \in Threads : PutStore(t)
  \/ \E t \in Threads : RemoveCheck(t)
  \/ \E t \in Threads : RemoveManager(t)
  \/ \E t \in Threads : RemoveDel(t)
  \/ \E t \in Threads : ListManagers(t)
  \/ \E t \in Threads : ListIter(t)
  \/ \E t \in Threads : ListNext(t)

SpecAPIConc == Init /\ [][NextAPIConc]_vars

\* C12 as claimed: no request fails because another thread changed the
\* registry while it ran: no handler answers 500.
C12_Claimed == \A t \in Threads : reqs[t].status # 500

\* C12 witness: a get_points has just been answered 500, the dict having
\* changed size under its loop.
C12_Witness ==
  \E t \in Threads :
    /\ reqs[t].op = "get_points" /\ reqs[t].pc = "idle" /\ reqs[t].status = 500
    /\ reqs[t].size # Cardinality(DOMAIN point_ids)

\* The threads that are in, or have last run, a put that was given its id.
Putters == { t \in Threads : reqs[t].op = "put_tracepoint" /\ reqs[t].id # NoId }

\* C13: puts running at the same time on different threads are given pairwise
\* distinct ids; each one's store adds its own id, not yet in point_ids, with
\* its own config, leaves every other entry as it was and is answered 201; and
\* an entry leaves point_ids only through a remove_point answered 200.  So N
\* concurrent puts all succeed and leave N entries.
C13_ConcurrentPuts ==
  [][ /\ \A t, u \in Putters : t # u => reqs[t].id # reqs[u].id
      /\ \A t \in Threads :
           (reqs[t].op = "put_tracepoint" /\ reqs[t].pc = "store" /\ reqs'[t].pc = "idle") =>
             /\ reqs'[t].status = 201
             /\ reqs[t].id \notin DOMAIN point_ids
             /\ DOMAIN point_ids' = DOMAIN point_ids \cup {reqs[t].id}
             /\ point_ids'[reqs[t].id].config = reqs[t].data
             /\ \A i \in DOMAIN point_ids : point_ids'[i] = point_ids[i]
      /\ \A i \in DOMAIN point_ids \ DOMAIN point_ids' :
           \E t \in Threads :
             reqs[t].op = "remove_point" /\ reqs[t].id = i /\ reqs'[t].status = 200 ]_vars

\* C13 witness: two puts overlapped (thread 2 was given the first id and has
\* not stored it yet, thread 1 was given the second and has been answered
\* 201), and nothing else ran.
C13_Witness ==
  /\ reqCount = 2
  /\ reqs[1].op = "put_tracepoint" /\ reqs[1].id = 2 /\ reqs[1].status = 201
  /\ reqs[2].op = "put_tracepoint" /\ reqs[2].id = 1 /\ reqs[2].pc = "store"
  /\ DOMAIN point_ids = {2}

\* ------------------------------------------------- the snapshot collector
\* The values a frame holds are a heap of containers: object k is
\* heap[k] = [kind, items], and an item is a reference: k > 0 for object k, 0
\* for a primitive (the int 1; a dict's keys are 'a', 'b', ...), and a negative
\* number for a value whose inspection raises.  Object 1 is the frame's
\* f_locals.

MaxObjs == 2
MaxItems == 2

Objs == 1..MaxObjs
Refs == {-1, 0} \cup Objs

\* The sequences over S of length at most n.
SeqsUpTo(S, n) == UNION { [1..k -> S] : k \in 0..n }

\* f_locals is a dict; the other objects are lists or dicts.
Kinds(k) == IF k = 1 THEN {"dict"} ELSE {"list", "dict"}

Heaps ==
  { h \in [Objs -> [kind : {"list", "dict"}, items : SeqsUpTo(Refs, MaxItems)]] :
      \A k \in Objs : h[k].kind \in Kinds(k) }

\* Serialized values.
Prim == [t |-> "prim"]
NoValue == [t |-> "none"]
TypeRepresentation == [t |-> "type"]
CircularReferenceMarker == [t |-> "circular"]
TruncationMarker(remaining) == [t |-> "truncated", remaining |-> remaining]
ErrorString == [t |-> "error"]
Container(kind, items) == [t |-> kind, items |-> items]
Variable(name, val) == [t |-> "variable", name |-> name, val |-> val]

\* CircularReferenceTracker
NewTracker(max_depth) == [max_depth |-> max_depth, visited |-> {}, depth |-> 0]

TrackerEnter(tr, obj_id) == [tr EXCEPT !.visited = @ \cup {obj_id}, !.depth = @ + 1]

\* (an exit that leaves the object among the visited ones)
TrackerExitKeeps(tr, obj_id) == [tr EXCEPT !.depth = @ - 1]

TrackerExit(tr, obj_id) == [tr EXCEPT !.visited = @ \ {obj_id}, !.depth = @ - 1]

is_max_depth_reached(tr) == tr.depth >= tr.max_depth

RECURSIVE safe_serialize_object(_, _, _, _)
RECURSIVE SerializeItems(_, _, _, _, _, _, _)

\* The loops of safe_serialize_object over a container's items, from item i
\* on: a list stops at index max_properties, a dict once it has stored
\* max_properties values (an item that raised is not counted); each stop adds
\* the truncation marker; an item that raises becomes an error string.
SerializeItems(h, obj, i, count, acc, tr, max_properties) ==
  LET items == h[obj].items
      done == IF h[obj].kind = "dict" THEN count ELSE i - 1
  IN IF i > Len(items) THEN [items |-> acc, tr |-> tr]
     ELSE IF done >= max_properties
       THEN [items |-> Append(acc, TruncationMarker(Len(items) - done)), tr |-> tr]
     ELSE LET c == safe_serialize_object(h, items[i], tr, max_properties)
          IN IF c.raised
               THEN SerializeItems(h, obj, i + 1, count, Append(acc, ErrorString), c.tr,
                                   max_properties)
               ELSE SerializeItems(h, obj, i + 1, count + 1, Append(acc, c.val), c.tr,
                                   max_properties)

\* safe_serialize_object(obj, tracker, max_properties): the value, the tracker
\* afterwards, and whether the call raised.
safe_serialize_object(h, r, tr, max_properties) ==
  IF r = 0 THEN [val |-> Prim, tr |-> tr, raised |-> FALSE]
  ELSE IF r < 0 THEN [val |-> NoValue, tr |-> tr, raised |-> TRUE]
  ELSE IF is_max_depth_reached(tr) THEN [val |-> TypeRepresentation, tr |-> tr, raised |-> FALSE]
  ELSE IF r \in tr.visited THEN [val |-> CircularReferenceMarker, tr |-> tr, raised |-> FALSE]
  ELSE LET body == SerializeItems(h, r, 1, 0, << >>, TrackerEnter(tr, r), max_properties)
       IN [val |-> Container(h[r].kind, body.items), tr |-> TrackerExit(body.tr, r),
           raised |-> FALSE]

RECURSIVE collect_variable_value(_, _, _, _, _, _)
RECURSIVE CollectItems(_, _, _, _, _, _, _, _)

\* The loops of collect_variable_value over a container's items, from item i
\* on: the loop breaks once cur_size has reached max_size, an item whose value
\* is None is left out, a dict adds len(repr(name)) for each key it keeps, and
\* an item that raises ends the call.
CollectItems(h, obj, i, acc, depth, max_depth, cur_size, max_size) ==
  LET items == h[obj].items
  IN IF i > Len(items) \/ cur_size >= max_size
       THEN [items |-> acc, cur_size |-> cur_size, raised |-> FALSE]
     ELSE LET c == collect_variable_value(h, items[i], depth + 1, max_depth, cur_size, max_size)
          IN IF c.raised THEN [items |-> acc, cur_size |-> c.cur_size, raised |-> TRUE]
             ELSE IF c.val = NoValue
               THEN CollectItems(h, obj, i + 1, acc, depth, max_depth, c.cur_size, max_size)
             ELSE CollectItems(h, obj, i + 1, Append(acc, c.val), depth, max_depth,
                               c.cur_size + (IF h[obj].kind = "dict" THEN 3 ELSE 0), max_size)

\* collect_variable_value(variable, depth, max_depth): the Value or None,
\* cur_size afterwards, and whether the call raised.
collect_variable_value(h, r, depth, max_depth, cur_size, max_size) ==
  IF depth >= max_depth \/ cur_size >= max_size
    THEN [val |-> NoValue, cur_size |-> cur_size, raised |-> FALSE]
  ELSE IF r = 0 THEN [val |-> Prim, cur_size |-> cur_size + 1, raised |-> FALSE]
  ELSE IF r < 0 THEN [val |-> NoValue, cur_size |-> cur_size, raised |-> TRUE]
  ELSE LET body == CollectItems(h, r, 1, << >>, depth, max_depth, cur_size, max_size)
       IN [val |-> Container(h[r].kind, body.items), cur_size |-> body.cur_size,
           raised |-> body.raised]

RECURSIVE FrameLocals(_, _, _, _, _, _, _)

\* The loop of collect_frame_locals over f_locals, from variable i on: a
\* variable whose value is None is left out, one whose collection raises is
\* skipped, and the loop breaks once there are more than max_properties
\* variables.
FrameLocals(h, i, variables, max_depth, max_properties, cur_size, max_size) ==
  LET items == h[1].items
  IN IF i > Len(items) THEN variables
     ELSE LET c == collect_variable_value(h, items[i], 0, max_depth, cur_size, max_size)
              vs == IF c.raised \/ c.val = NoValue THEN variables
                    ELSE Append(variables, Variable(i, c.val))
          IN IF ~c.raised /\ Len(vs) > max_properties THEN vs
             ELSE FrameLocals(h, i + 1, vs, max_depth, max_properties, c.cur_size, max_size)

\* collect_frame_locals(frame), on a collector whose cur_size is 0.
collect_frame_locals(h, max_depth, max_properties, max_size) ==
  Container("frame", FrameLocals(h, 1, << >>, max_depth, max_properties, 0, max_size))

\* _trim_string(s, max_len): s[:max_len + 1] + '...'
_trim_string(s, max_len) ==
  IF Len(s) <= max_len THEN s
  ELSE Append(SubSeq(s, 1, Min(Len(s), max_len + 1)), "...")

MaxDepth == 3
MaxStr == 3

\* What the collector is handed: a frame's values with the settings of
\* SnapshotCollectorConfigManager (max_size is in characters: a small budget
\* and one no input here exhausts), or a string with max_var_len.
HeapInputs ==
  { [NoSnap EXCEPT !.input = "heap", !.heap = h, !.max_depth = d, !.max_props = m,
                   !.max_size = z] :
      h \in Heaps, d \in 1..MaxDepth, m \in 1..MaxItems, z \in {3, 50} }

StrInputs ==
  { [NoSnap EXCEPT !.input = "str", !.str = str, !.max_var_len = m] :
      str \in SeqsUpTo({"a", "b"}, MaxStr), m \in 0..MaxStr }

InitSnap ==
  /\ InitIdle
  /\ now = 0
  /\ limiter = NewBucket(5, 1, 0)
  /\ calls = 0
  /\ admitted = 0
  /\ rlResult = "none"
  /\ InitLock
  /\ InitReqs
  /\ snap \in HeapInputs \cup StrInputs
  /\ sel = NoSel
  /\ NewAtRest("")

SnapDone(op, out) ==
  /\ snap.op = "none"
  /\ snap' = [snap EXCEPT !.op = op, !.out = out]
  /\ UNCHANGED <<now, rlVars, concVars, reqVars, sel, newVars, apiVars, regVars, histVars>>

\* safe_serialize_object(f_locals, CircularReferenceTracker(max_depth), max_properties)
Serialize ==
  /\ snap.input = "heap"
  /\ SnapDone("safe_serialize_object",
              safe_serialize_object(snap.heap, 1, NewTracker(snap.max_depth), snap.max_props))

\* SnapshotCollector().collect_frame_locals(frame)
CollectFrameLocals ==
  /\ snap.input = "heap"
  /\ SnapDone("collect_frame_locals",
              collect_frame_locals(snap.heap, snap.max_depth, snap.max_props, snap.max_size))

\* _trim_string(s, get_max_var_len())
TrimString ==
  /\ snap.input = "str"
  /\ SnapDone("_trim_string", _trim_string(snap.str, snap.max_var_len))

NextSnap == Serialize \/ CollectFrameLocals \/ TrimString

SpecSnap == InitSnap /\ [][NextSnap]_vars

\* ------------------------------------------ the snapshot collector: claims

RECURSIVE HasNode(_, _)
\* The serialized value v holds a node of type t.
HasNode(v, t) ==
  \/ v.t = t
  \/ v.t \in {"list", "dict", "frame"} /\ \E i \in DOMAIN v.items : HasNode(v.items[i], t)
  \/ v.t = "variable" /\ HasNode(v.val, t)

\* The frame's locals, and whether collect_frame_locals has run on them with
\* budgets that its values do not exhaust.
Locals == snap.heap[1].items

Collected == snap.op = "collect_frame_locals"

AmpleBudgets == snap.max_depth >= 2 /\ snap.max_size = 50

\* The frame holds one variable, d = {'a': 1}; d['self'] = d.
SelfReferential ==
  Locals = <<2>> /\ snap.heap[2] = [kind |-> "dict", items |-> <<0, 2>>]

\* C14 as claimed: collect on d = {'a': 1}; d['self'] = d ends with a snapshot
\* that has the circular-reference marker where d refers to itself.
C14_Claimed ==
  (Collected /\ SelfReferential /\ AmpleBudgets) =>
    /\ Len(snap.out.items) = 1
    /\ snap.out.items[1].val.t = "dict"
    /\ Len(snap.out.items[1].val.items) = 2
    /\ snap.out.items[1].val.items[2] = CircularReferenceMarker

\* C14 witness: with max_depth 2 the collection of d ends, d['self'] being d
\* once more, emptied by the depth limit, and no marker anywhere.
C14_Witness ==
  /\ Collected /\ SelfReferential /\ snap.max_depth = 2 /\ snap.max_size = 50
  /\ snap.out = Container("frame",
                  <<Variable(1, Container("dict", <<Prim, Container("dict", << >>)>>))>>)
  /\ ~HasNode(snap.out, "circular")

RECURSIVE Scoped(_, _, _, _)
\* v, the serialization of reference r below the open objects `open`, has a
\* circular-reference marker exactly where a reference is to an open object
\* (unless the depth limit put a type representation there), and equal values
\* for equal references among a container's items.
Scoped(h, r, v, open) ==
  IF v.t = "circular" THEN r \in open
  ELSE IF v.t = "type" THEN r > 0
  ELSE IF v.t \in {"list", "dict"}
    THEN /\ r > 0 /\ r \notin open
         /\ \A i \in DOMAIN v.items :
              \/ v.items[i].t = "truncated"
              \/ Scoped(h, h[r].items[i], v.items[i], open \cup {r})
         /\ \A i, j \in DOMAIN v.items :
              (/\ v.items[i].t # "truncated" /\ v.items[j].t # "truncated"
               /\ h[r].items[i] = h[r].items[j]) => v.items[i] = v.items[j]
  ELSE r <= 0

\* C15: in what safe_serialize_object returns, a circular-reference marker
\* stands only where a value is reached again while it is open on the current
\* path, and an object that is in two sibling items of a container is
\* serialized in both, the same way; the tracker is as it was before the call.
C15_ScopedCycleDetection ==
  snap.op = "safe_serialize_object" =>
    /\ ~snap.out.raised
    /\ Scoped(snap.heap, 1, snap.out.val, {})
    /\ snap.out.tr = NewTracker(snap.max_depth)

\* C15 witness: f_locals holds the same list twice, the list holds f_locals;
\* both items are serialized in full, the marker standing in each for the
\* reference back.
C15_Witness ==
  /\ snap.op = "safe_serialize_object"
  /\ Locals = <<2, 2>> /\ snap.heap[2] = [kind |-> "list", items |-> <<0, 1>>]
  /\ snap.out.val = Container("dict",
                      << Container("list", <<Prim, CircularReferenceMarker>>),
                         Container("list", <<Prim, CircularReferenceMarker>>) >>)

\* The frame holds one variable, a container of primitives.
FlatContainer == Locals = <<2>> /\ \A i \in DOMAIN snap.heap[2].items : snap.heap[2].items[i] = 0

\* n elements under maxProps = m: m elements and the marker, or all n.
TruncatedTo(n, m) ==
  IF n > m THEN [i \in 1..(m + 1) |-> IF i <= m THEN Prim ELSE TruncationMarker(n - m)]
  ELSE [i \in 1..n |-> Prim]

\* C16 as claimed: a container of n elements collected under maxProps = m has
\* m elements and one truncation marker with remaining = n - m when n > m, and
\* its n elements and no marker otherwise.
C16_Claimed ==
  (Collected /\ FlatContainer /\ AmpleBudgets) =>
    snap.out.items =
      << Variable(1, Container(snap.heap[2].kind,
                               TruncatedTo(Len(snap.heap[2].items), snap.max_props))) >>

\* C16 witness: a list of 2 elements collected under max_properties = 1 has
\* both elements and no marker.
C16_Witness ==
  /\ Collected /\ FlatContainer /\ AmpleBudgets /\ snap.max_props = 1
  /\ snap.out.items = << Variable(1, Container("list", <<Prim, Prim>>)) >>

RECURSIVE Marked(_, _, _)
\* v shows all of the value r refers to, or has a truncation marker with the
\* number of elements left out where it leaves some out.
Marked(h, r, v) ==
  IF v.t = "prim" THEN r = 0
  ELSE IF v.t \in {"list", "dict"}
    THEN LET n == Len(h[r].items)
             k == Len(v.items)
         IN \/ k = n /\ \A i \in 1..k : Marked(h, h[r].items[i], v.items[i])
            \/ /\ k >= 1 /\ v.items[k] = TruncationMarker(n - (k - 1))
               /\ \A i \in 1..(k - 1) : Marked(h, h[r].items[i], v.items[i])
  ELSE v.t \in {"truncated", "circular", "type", "error"}

\* No value of the frame raises when it is inspected.
NoneRaises == \A k \in Objs : \A i \in DOMAIN snap.heap[k].items : snap.heap[k].items[i] >= 0

\* C17 as claimed: what collect leaves out of a frame for its depth, size or
\* width budget is marked: each variable is in the snapshot, whole or with a
\* truncation marker carrying the number of elements left out.
C17_Claimed ==
  (Collected /\ NoneRaises) =>
    \/ /\ Len(snap.out.items) = Len(Locals)
       /\ \A i \in DOMAIN Locals :
            snap.out.items[i].name = i /\ Marked(snap.heap, Locals[i], snap.out.items[i].val)
    \/ /\ Len(snap.out.items) >= 1
       /\ snap.out.items[Len(snap.out.items)] =
            TruncationMarker(Len(Locals) - (Len(snap.out.items) - 1))

\* C17 witness: under max_depth = 1 a list of two elements is collected as an
\* empty list, with no marker.
C17_Witness ==
  /\ Collected /\ snap.max_depth = 1 /\ snap.max_size = 50
  /\ Locals = <<2>> /\ snap.heap[2] = [kind |-> "list", items |-> <<0, 0>>]
  /\ snap.out = Container("frame", <<Variable(1, Container("list", << >>))>>)

\* C18 as claimed: a variable whose serialization raises is in the snapshot as
\* an error placeholder, and every other variable is captured.
C18_Claimed ==
  (Collected /\ snap.max_size = 50 /\ Len(Locals) <= snap.max_props) =>
    /\ Len(snap.out.items) = Len(Locals)
    /\ \A i \in DOMAIN Locals : Locals[i] < 0 => snap.out.items[i] = Variable(i, ErrorString)

\* C18 witness: of two variables the first raises; the snapshot holds the
\* second and nothing for the first.
C18_Witness ==
  /\ Collected /\ snap.max_size = 50 /\ snap.max_props = 2
  /\ Locals = <<-1, 0>>
  /\ snap.out = Container("frame", <<Variable(2, Prim)>>)

\* C19 as claimed: a string longer than maxVarLen is captured as at most
\* maxVarLen of its first characters and the ellipsis; a shorter one as it is.
C19_Claimed ==
  snap.op = "_trim_string" =>
    IF Len(snap.str) <= snap.max_var_len THEN snap.out = snap.str
    ELSE \E k \in 0..snap.max_var_len : snap.out = Append(SubSeq(snap.str, 1, k), "...")

\* C19 witness: "aba" under max_var_len = 1 is captured as "ab...".
C19_Witness ==
  /\ snap.op = "_trim_string" /\ snap.str = <<"a", "b", "a">> /\ snap.max_var_len = 1
  /\ snap.out = <<"a", "b", "...">>

\* ------------------------------------------------------ the engine selector

MaxMinor == 14
FTMinor == 13

RECURSIVE TupleLE(_, _)
\* a <= b for Python tuples of numbers: the first difference decides, and a
\* tuple is below every longer tuple it begins.
TupleLE(a, b) ==
  IF a = << >> THEN TRUE
  ELSE IF b = << >> THEN FALSE
  ELSE IF a[1] # b[1] THEN a[1] < b[1]
  ELSE TupleLE(Tail(a), Tail(b))

\* str.lower() on the values TRACEPOINTDEBUG_ENGINE is given here.
Lower(s) ==
  CASE s = "NATIVE" -> "native"
    [] s = "PyTrace" -> "pytrace"
    [] OTHER -> s

\* os.environ.get("TRACEPOINTDEBUG_ENGINE"): << >> is None, <<s>> the string s.
Overrides == { << >>, <<"">>, <<"native">>, <<"NATIVE">>, <<"pytrace">>, <<"PyTrace">>, <<"auto">> }

\* bool(engine_override) and engine_override.lower() == name
OverrideIs(engine_override, name) ==
  /\ engine_override # << >>
  /\ engine_override[1] # ""
  /\ Lower(engine_override[1]) = name

build_supports_free_threading(Py_GIL_DISABLED) == Py_GIL_DISABLED

\* sys._is_gil_enabled is absent before 3.13; it answers "on" or "off".
gil_is_enabled(gil) == IF gil = "absent" THEN TRUE ELSE gil = "on"

is_actually_free_threaded(Py_GIL_DISABLED, gil) ==
  build_supports_free_threading(Py_GIL_DISABLED) /\ ~gil_is_enabled(gil)

\* The selection with the GIL on, or on an older Python.
GilEngine(engine_override, py_version) ==
  IF OverrideIs(engine_override, "native") THEN "native"
  ELSE IF OverrideIs(engine_override, "pytrace") THEN "pytrace"
  ELSE IF TupleLE(<<3, 8>>, py_version) /\ TupleLE(py_version, <<3, 10>>) THEN "native"
  ELSE "pytrace"

\* (a selector that looks at the override before it looks at the host)
get_engine_override_first(engine_override, is_ft, py_version) ==
  IF OverrideIs(engine_override, "native") THEN [engine |-> "native", warned |-> FALSE]
  ELSE IF is_ft THEN [engine |-> "pytrace", warned |-> FALSE]
  ELSE [engine |-> GilEngine(engine_override, py_version), warned |-> FALSE]

get_engine(engine_override, is_ft, py_version) ==
  IF is_ft
    THEN [engine |-> "pytrace", warned |-> OverrideIs(engine_override, "native")]
    ELSE [engine |-> GilEngine(engine_override, py_version), warned |-> FALSE]

\* The interpreters: sys.version_info, the build's Py_GIL_DISABLED, and
\* sys._is_gil_enabled, which exists from 3.13 on and answers "off" only on a
\* free-threaded build.
Hosts ==
  { h \in [ version : { <<3, minor, micro>> : minor \in 7..MaxMinor, micro \in 0..1 },
            Py_GIL_DISABLED : BOOLEAN, gil : {"absent", "on", "off"} ] :
      /\ (h.gil = "absent") <=> (h.version[2] < FTMinor)
      /\ h.Py_GIL_DISABLED => h.version[2] >= FTMinor
      /\ (h.gil = "off") => h.Py_GIL_DISABLED }

SelInputs ==
  { [NoSel EXCEPT !.version = h.version, !.Py_GIL_DISABLED = h.Py_GIL_DISABLED,
                  !.gil = h.gil, !.override = o] : h \in Hosts, o \in Overrides }

InitSel ==
  /\ InitIdle
  /\ now = 0
  /\ limiter = NewBucket(5, 1, 0)
  /\ calls = 0
  /\ admitted = 0
  /\ rlResult = "none"
  /\ InitLock
  /\ InitReqs
  /\ snap = NoSnap
  /\ sel \in SelInputs
  /\ NewAtRest("")

GetEngine ==
  /\ sel.op = "none"
  /\ sel' = [sel EXCEPT !.op = "get_engine",
                        !.out = get_engine(sel.override,
                                           is_actually_free_threaded(sel.Py_GIL_DISABLED, sel.gil),
                                           sel.version)]
  /\ UNCHANGED <<now, rlVars, concVars, reqVars, snap, newVars, apiVars, regVars, histVars>>

NextSel == GetEngine

SpecSel == InitSel /\ [][NextSel]_vars

\* The host runs with the GIL disabled.
FreeThreadedHost == sel.gil = "off"

\* C20: on a host that runs free-threaded get_engine returns pytrace whatever
\* TRACEPOINTDEBUG_ENGINE holds, and warns when it holds native.
C20_FreeThreadedForcesPytrace ==
  (sel.op = "get_engine" /\ FreeThreadedHost) =>
    /\ sel.out.engine = "pytrace"
    /\ OverrideIs(sel.override, "native") => sel.out.warned

\* C20 witness: Python 3.13 with the GIL off and TRACEPOINTDEBUG_ENGINE=native:
\* pytrace, with the warning.
C20_Witness ==
  /\ sel.op = "get_engine" /\ FreeThreadedHost
  /\ sel.version = <<3, 13, 0>> /\ sel.override = <<"native">>
  /\ sel.out = [engine |-> "pytrace", warned |-> TRUE]

\* ------------------------------------- the engine over a process lifetime

\* Everything but the snapshot collector, the selector and what follows, at rest.
AtRest ==
  /\ InitIdle
  /\ now = 0
  /\ limiter = NewBucket(5, 1, 0)
  /\ calls = 0
  /\ admitted = 0
  /\ rlResult = "none"
  /\ InitLock
  /\ InitReqs

oldVars == <<now, rlVars, concVars, reqVars, apiVars, regVars, histVars>>

InitLife ==
  /\ AtRest
  /\ snap = NoSnap
  /\ sel \in SelInputs
  /\ NewAtRest("")

\* What a call of get_engine() returns now.
SelectedEngine ==
  get_engine(sel.override, is_actually_free_threaded(sel.Py_GIL_DISABLED, sel.gil),
             sel.version).engine

\* The host program assigns os.environ["TRACEPOINTDEBUG_ENGINE"] (or deletes it).
SetOverride(o) ==
  /\ o # sel.override
  /\ sel' = [sel EXCEPT !.override = o]
  /\ UNCHANGED <<oldVars, snap, engines, pt, broker, sink, collector, ptc, nat, bms>>

\* tracepointdebug.start(enable_control_api=False): engine = get_engine()
AgentStart ==
  /\ engines.agent = "none"
  /\ engines' = [engines EXCEPT !.agent = SelectedEngine, !.first = SelectedEngine]
  /\ UNCHANGED <<oldVars, snap, sel, pt, broker, sink, collector, ptc, nat, bms>>

\* start_control_api(engine=engine): control_api.engine = engine, then
\* ControlAPI.start: self.engine = get_engine()
ControlStart ==
  /\ engines.agent # "none"
  /\ engines.control = "none"
  /\ engines' = [engines EXCEPT !.control = SelectedEngine]
  /\ UNCHANGED <<oldVars, snap, sel, pt, broker, sink, collector, ptc, nat, bms>>

NextLife == (\E o \in Overrides : SetOverride(o)) \/ AgentStart \/ ControlStart

SpecLife == InitLife /\ [][NextLife]_vars

\* C21 as claimed: the engine the control API holds is the engine of the first
\* selection, whatever TRACEPOINTDEBUG_ENGINE was set to between the calls.
C21_Claimed == engines.control # "none" => engines.control = engines.first

\* C21 witness: Python 3.11, native by override at start; the override is set
\* to pytrace; the control API then holds pytrace and the agent native.
C21_Witness ==
  /\ sel.version = <<3, 11, 0>> /\ sel.override = <<"pytrace">>
  /\ engines = [agent |-> "native", control |-> "pytrace", first |-> "native"]

\* ------------------------------------------------------ the pytrace engine

MaxCallbacks == 2
MaxReenter == 1

CbIds == 1..MaxCallbacks

\* What a callback does when the hook calls it: return; raise; call
\* set_logpoint for another id; call remove_logpoint for its own id; call
\* _trace again (once).
Fns == {"ok", "raises", "sets", "removes", "reenters"}

\* _CALLBACKS[lp_id] = fn: a dict keeps a key where it is, a new key goes last.
TableSet(tb, id, fn) ==
  IF \E i \in DOMAIN tb : tb[i].id = id
    THEN [i \in DOMAIN tb |-> IF tb[i].id = id THEN [id |-> id, fn |-> fn] ELSE tb[i]]
    ELSE Append(tb, [id |-> id, fn |-> fn])

(* a pop that leaves the table as it is *)
TablePopKeeps(tb, id) == tb

\* _CALLBACKS.pop(lp_id, None)
TablePop(tb, id) ==
  LET keep == { i \in DOMAIN tb : tb[i].id # id }
      RECURSIVE Pick(_, _)
      Pick(i, acc) == IF i > Len(tb) THEN acc
                      ELSE Pick(i + 1, IF i \in keep THEN Append(acc, tb[i]) ELSE acc)
  IN Pick(1, << >>)

\* threading.RLock: free, or held by the thread that asks.
CanAcquire(owner, t) == owner = 0 \/ owner = t

\* The id the "sets" callback of id registers.
OtherId(id) == IF id = MaxCallbacks THEN 1 ELSE id + 1

RECURSIVE RunCallbacks(_, _, _, _, _)
RECURSIVE CallCallback(_, _, _, _)

\* cb(frame, event, arg), on thread t, which holds _LOCK.
CallCallback(tb, e, depth, t) ==
  CASE e.fn = "ok" -> [table |-> tb, outcome |-> "returned"]
    [] e.fn = "raises" -> [table |-> tb, outcome |-> "callback raised"]
    [] e.fn = "sets" ->
         IF CanAcquire(t, t) THEN [table |-> TableSet(tb, OtherId(e.id), "ok"), outcome |-> "returned"]
         ELSE [table |-> tb, outcome |-> "deadlock"]
    [] e.fn = "removes" ->
         IF CanAcquire(t, t) THEN [table |-> TablePop(tb, e.id), outcome |-> "returned"]
         ELSE [table |-> tb, outcome |-> "deadlock"]
    [] e.fn = "reenters" ->
         IF depth >= MaxReenter THEN [table |-> tb, outcome |-> "returned"]
         ELSE IF CanAcquire(t, t) THEN RunCallbacks(tb, 1, Len(tb), depth + 1, t)
         ELSE [table |-> tb, outcome |-> "deadlock"]

\* for cb in _CALLBACKS.values(): cb(frame, event, arg), from the i-th entry
\* on; used is the size of the dict when the iteration began, and a step of
\* the iterator on a dict of another size raises RuntimeError.
RunCallbacks(tb, i, used, depth, t) ==
  IF Len(tb) # used THEN [table |-> tb, outcome |-> "RuntimeError"]
  ELSE IF i > Len(tb) THEN [table |-> tb, outcome |-> "returned"]
  ELSE LET r == CallCallback(tb, tb[i], depth, t)
       IN IF r.outcome # "returned" THEN r
          ELSE RunCallbacks(r.table, i + 1, used, depth, t)

\* _trace(frame, event, arg) on thread t
_trace(tb, active, event, t) ==
  IF ~active \/ event \notin {"line", "call"} THEN [table |-> tb, outcome |-> "returned"]
  ELSE RunCallbacks(tb, 1, Len(tb), 0, t)

PTDone(op, t, outcome) == [op |-> op, thread |-> t, outcome |-> outcome, pre |-> pt.callbacks]

ptFrame == <<oldVars, snap, sel, engines, broker, sink, collector, ptc, nat, bms>>

InitPT ==
  /\ AtRest
  /\ snap = NoSnap
  /\ sel = NoSel
  /\ NewAtRest("pt")
  /\ pt \in { [NoPT EXCEPT !.cdbg = b] : b \in BOOLEAN }

\* pytrace.start() on thread t: sys.settrace installs the hook on that thread.
pytrace_start(t) ==
  IF pt.active THEN pt
  ELSE [pt EXCEPT !.active = TRUE, !.hook[t] = TRUE]

\* pytrace.stop() on thread t: sys.settrace(None) is for the calling thread.
pytrace_stop(t) == [pt EXCEPT !.active = FALSE, !.hook[t] = FALSE]

Start(t) ==
  /\ pt' = [pytrace_start(t) EXCEPT !.last = PTDone("start", t, "returned")]
  /\ UNCHANGED ptFrame

Stop(t) ==
  /\ pt' = [pytrace_stop(t) EXCEPT !.last = PTDone("stop", t, "returned")]
  /\ UNCHANGED ptFrame

\* native.start(): cdbg_native.InitializeModule, or pytrace when the import fails.
NativeStart(t) ==
  /\ pt' = [(IF pt.cdbg THEN [pt EXCEPT !.native = TRUE] ELSE pytrace_start(t))
              EXCEPT !.last = PTDone("native.start", t, "returned")]
  /\ UNCHANGED ptFrame

\* native.stop(): nothing with cdbg_native, pytrace's stop when the import fails.
NativeStop(t) ==
  /\ pt' = [(IF pt.cdbg THEN pt ELSE pytrace_stop(t))
              EXCEPT !.last = PTDone("native.stop", t, "returned")]
  /\ UNCHANGED ptFrame

SetLogpoint(t, id, fn) ==
  /\ pt' = [pt EXCEPT !.callbacks = TableSet(@, id, fn),
                      !.last = PTDone("set_logpoint", t, "returned")]
  /\ UNCHANGED ptFrame

RemoveLogpoint(t, id) ==
  /\ pt' = [pt EXCEPT !.callbacks = TablePop(@, id),
                      !.last = PTDone("remove_logpoint", t, "returned")]
  /\ UNCHANGED ptFrame

\* The interpreter calls the trace function of thread t; when the function
\* raises, the interpreter unsets it and the exception goes on in the traced
\* frame.
Trace(t, event) ==
  /\ pt.hook[t]
  /\ LET r == _trace(pt.callbacks, pt.active, event, t)
     IN pt' = [pt EXCEPT !.callbacks = r.table,
                         !.hook[t] = (r.outcome = "returned"),
                         !.last = PTDone("_trace", t, r.outcome)]
  /\ UNCHANGED ptFrame

NextPT ==
  \E t \in Threads :
    \/ Start(t)
    \/ Stop(t)
    \/ NativeStart(t)
    \/ NativeStop(t)
    \/ \E id \in CbIds, fn \in Fns : SetLogpoint(t, id, fn)
    \/ \E id \in CbIds : RemoveLogpoint(t, id)
    \/ \E event \in {"line", "call", "return"} : Trace(t, event)

SpecPT == InitPT /\ [][NextPT]_vars

\* C22 as claimed: whatever a callback does, the hook returns to the
\* interpreter: nothing is raised into the traced program.
C22_Claimed == pt.last.op = "_trace" => pt.last.outcome = "returned"

\* C22 witness: the one callback raises, and the hook ends with its exception.
C22_Witness ==
  /\ pt.last.op = "_trace" /\ pt.last.pre = <<[id |-> 1, fn |-> "raises"]>>
  /\ pt.last.outcome = "callback raised"
  /\ ~pt.hook[pt.last.thread]

\* No callback raises of its own.
NoneRaisesIn(tb) == \A i \in DOMAIN tb : tb[i].fn # "raises"

\* C23 as claimed: a hook whose callbacks re-enter it or call set_logpoint or
\* remove_logpoint ends without deadlock and without failure, and no id is
\* twice in the table.
C23_Claimed ==
  (pt.last.op = "_trace" /\ NoneRaisesIn(pt.last.pre)) =>
    /\ pt.last.outcome = "returned"
    /\ \A i, j \in DOMAIN pt.callbacks : pt.callbacks[i].id = pt.callbacks[j].id => i = j

\* C23 witness: the one callback registers a logpoint under another id; the
\* table holds both, and the hook's loop ended with RuntimeError.
C23_Witness ==
  /\ pt.last.op = "_trace" /\ pt.last.pre = <<[id |-> 1, fn |-> "sets"]>>
  /\ pt.callbacks = <<[id |-> 1, fn |-> "sets"], [id |-> 2, fn |-> "ok"]>>
  /\ pt.last.outcome = "RuntimeError"

\* C24 as claimed: after stop(), of either engine and on any thread, the
\* engine is inactive and no thread has the hook installed.
C24_Claimed ==
  pt.last.op \in {"stop", "native.stop"} =>
    /\ pt.last.outcome = "returned"
    /\ ~pt.active /\ ~pt.native
    /\ \A t \in Threads : ~pt.hook[t]

\* C24 witness: started on thread 1 and stopped on thread 2, pytrace is
\* inactive and thread 1 still has the hook.
C24_Witness ==
  /\ pt.last.op = "stop" /\ pt.last.thread = 2
  /\ ~pt.active /\ pt.hook[1] /\ ~pt.hook[2]

\* ------------------------------------------------------ the broker manager

MaxEvents == 3
MaxRetries == 3
MaxBackoff == 2

brokerFrame == <<oldVars, snap, sel, engines, pt, sink, collector, ptc, nat, bms>>

\* BrokerManager(): the EventClient, or None when the health check failed;
\* retries and backoff are the EventClient's.
InitBroker ==
  /\ AtRest
  /\ snap = NoSnap
  /\ sel = NoSel
  /\ NewAtRest("broker")
  /\ broker \in { [NoBroker EXCEPT !.client = c, !.retries = r, !.backoff = b] :
                    c \in BOOLEAN, r \in 0..MaxRetries, b \in 1..MaxBackoff }

\* publish_event(event), on the hit path: submit to the executor, whose work
\* queue has no bound.
PublishEvent ==
  /\ broker.published < MaxEvents
  /\ broker' = [broker EXCEPT !.published = @ + 1,
                              !.queue = IF broker.client THEN Append(@, broker.published + 1) ELSE @]
  /\ UNCHANGED brokerFrame

\* What do_publish_event returned for an event, after which posts and sleeps.
Done(w, result) ==
  [event |-> w.event, result |-> result, posts |-> w.posts, sleeps |-> w.sleeps]

(* a loop that does not know its last attempt *)
IsLastAttemptNever(i, retries) == FALSE

\* if i == self._client.retries - 1
IsLastAttempt(i, retries) == i = retries - 1

\* An executor thread takes the next work item and runs do_publish_event up to
\* the first post: the payload is built, or building it raises, or retries
\* is 0 and the loop is empty.
WorkerTake(w, payload_ok) ==
  /\ broker.workers[w].state = "idle"
  /\ broker.queue # << >>
  /\ LET e == Head(broker.queue)
         taken == [IdleWorker EXCEPT !.event = e]
     IN IF payload_ok /\ broker.retries > 0
          THEN broker' = [broker EXCEPT !.queue = Tail(@),
                                        !.workers[w] = [taken EXCEPT !.state = "posting"]]
          ELSE broker' = [broker EXCEPT !.queue = Tail(@),
                                        !.done = Append(@, Done(taken, FALSE))]
  /\ UNCHANGED brokerFrame

\* session.post and raise_for_status: attempt i succeeds or raises.
Post(w, ok) ==
  /\ broker.workers[w].state = "posting"
  /\ LET me == [broker.workers[w] EXCEPT !.posts = Append(@, ok)]
     IN IF ok
          THEN broker' = [broker EXCEPT !.workers[w] = IdleWorker,
                                        !.done = Append(@, Done(me, TRUE))]
        ELSE IF IsLastAttempt(me.i, broker.retries)
          THEN broker' = [broker EXCEPT !.workers[w] = IdleWorker,
                                        !.done = Append(@, Done(me, FALSE))]
        ELSE broker' = [broker EXCEPT !.workers[w] =
                          [me EXCEPT !.state = "sleeping",
                                     !.sleeps = Append(@, broker.backoff * (2 ^ me.i))]]
  /\ UNCHANGED brokerFrame

\* time.sleep returns: the next i of range(retries), or the end of the loop.
Wake(w) ==
  /\ broker.workers[w].state = "sleeping"
  /\ LET me == [broker.workers[w] EXCEPT !.i = @ + 1]
     IN IF me.i < broker.retries
          THEN broker' = [broker EXCEPT !.workers[w] = [me EXCEPT !.state = "posting"]]
          ELSE broker' = [broker EXCEPT !.workers[w] = IdleWorker,
                                        !.done = Append(@, Done(me, FALSE))]
  /\ UNCHANGED brokerFrame

NextBroker ==
  \/ PublishEvent
  \/ \E w \in Workers :
       \/ \E payload_ok \in BOOLEAN : WorkerTake(w, payload_ok)
       \/ \E ok \in BOOLEAN : Post(w, ok)
       \/ Wake(w)

SpecBroker == InitBroker /\ [][NextBroker]_vars

\* Every worker is in do_publish_event.
Saturated == \A w \in Workers : broker.workers[w].state # "idle"

\* C25 as claimed: the events waiting for dispatch stay below a fixed number:
\* with every worker busy, not all the events published since wait in the queue.
C25_Claimed == Saturated => Len(broker.queue) < MaxEvents - MaxWorkers

\* C25 witness: the worker sleeps between two attempts for event 1 and every
\* event published since is in the queue; none was dropped.
C25_Witness ==
  /\ Saturated /\ broker.workers[1].state = "sleeping"
  /\ broker.published = MaxEvents
  /\ Len(broker.queue) = MaxEvents - MaxWorkers
  /\ broker.done = << >>

\* backoff * 2^i for i = 0 .. n - 1
Backoffs(n) == [k \in 1..n |-> broker.backoff * (2 ^ (k - 1))]

\* The posts of d failed, but for the last when last_ok.
FailedUpTo(d, last_ok) ==
  \A k \in DOMAIN d.posts : d.posts[k] = (last_ok /\ k = Len(d.posts))

MaxStored == 2

REQUIRED_BASE_FIELDS == {"name", "timestamp", "id", "client", "payload"}

REQUIRED_CLIENT_FIELDS ==
  {"hostname", "applicationName", "agentVersion", "runtime", "runtimeVersion"}

VALID_EVENT_TYPES ==
  { "probe.hit.snapshot", "probe.hit.logpoint", "probe.error.condition",
    "probe.error.snapshot", "probe.error.rateLimit", "agent.status.started",
    "agent.status.stopped" }

\* PAYLOAD_REQUIREMENTS[name]['required']
PayloadRequired(name) ==
  CASE name = "probe.hit.snapshot" -> {"probeId", "probeType", "file", "line"}
    [] name = "probe.hit.logpoint" -> {"probeId", "probeType", "file", "line", "message"}
    [] name = "probe.error.condition" ->
         {"probeId", "probeType", "file", "line", "condition", "error"}
    [] name = "probe.error.snapshot" -> {"probeId", "probeType", "file", "line", "error"}
    [] name = "probe.error.rateLimit" -> {"probeId", "probeType", "file", "line", "message"}
    [] name = "agent.status.started" -> {"message"}
    [] name = "agent.status.stopped" -> {"message"}
    [] OTHER -> {}

Runtimes == {"python", "java", "node"}

\* A JSON array where a string is expected: a value that cannot be hashed.
Unhashable == "[]"

\* A request body: whether it is JSON and a JSON object, the keys it has, and
\* under them what validate looks at; probeId is payload.probeId.
ValidEvent(name, probeId) ==
  [ json |-> TRUE, object |-> TRUE, keys |-> REQUIRED_BASE_FIELDS, name |-> name,
    timestamp |-> "iso", id |-> "uuid", clientObject |-> TRUE,
    clientKeys |-> REQUIRED_CLIENT_FIELDS, runtime |-> "python", payloadObject |-> TRUE,
    payloadKeys |-> PayloadRequired(name), probeId |-> probeId ]

ValidEvents ==
  { ValidEvent("probe.hit.snapshot", "probe-1"), ValidEvent("probe.hit.logpoint", "probe-2"),
    ValidEvent("agent.status.started", "") }

\* The bodies that differ from e in one place.
Defects(e) ==
  { [e EXCEPT !.json = FALSE], [e EXCEPT !.object = FALSE] }
  \cup { [e EXCEPT !.keys = @ \ {k}] : k \in REQUIRED_BASE_FIELDS }
  \cup { [e EXCEPT !.name = n] : n \in {"tracepoint.hit", Unhashable} }
  \cup { [e EXCEPT !.timestamp = x] : x \in {"yesterday", "number"} }
  \cup { [e EXCEPT !.id = "test-id"], [e EXCEPT !.clientObject = FALSE],
         [e EXCEPT !.payloadObject = FALSE] }
  \cup { [e EXCEPT !.clientKeys = @ \ {k}] : k \in REQUIRED_CLIENT_FIELDS }
  \cup { [e EXCEPT !.runtime = r] : r \in {"cpython", Unhashable} }
  \cup { [e EXCEPT !.payloadKeys = @ \ {k}] : k \in PayloadRequired(e.name) }

Bodies == ValidEvents \cup UNION { Defects(e) : e \in ValidEvents }

(* a validation that stops before the payload *)
validate_without_payload(e) ==
  IF ~e.object THEN "invalid"
  ELSE IF REQUIRED_BASE_FIELDS \ e.keys # {} THEN "invalid"
  ELSE IF e.name = Unhashable THEN "TypeError"
  ELSE IF e.name \notin VALID_EVENT_TYPES THEN "invalid"
  ELSE IF e.timestamp # "iso" THEN "invalid"
  ELSE IF e.id # "uuid" THEN "invalid"
  ELSE IF ~e.clientObject THEN "invalid"
  ELSE IF REQUIRED_CLIENT_FIELDS \ e.clientKeys # {} THEN "invalid"
  ELSE IF e.runtime = Unhashable THEN "TypeError"
  ELSE IF e.runtime \notin Runtimes THEN "invalid"
  ELSE "valid"

\* EventValidator.validate: "valid", "invalid" with a message, or the
\* TypeError of looking an unhashable value up in a set.
validate(e) ==
  IF ~e.object THEN "invalid"
  ELSE IF REQUIRED_BASE_FIELDS \ e.keys # {} THEN "invalid"
  ELSE IF e.name = Unhashable THEN "TypeError"
  ELSE IF e.name \notin VALID_EVENT_TYPES THEN "invalid"
  ELSE IF e.timestamp # "iso" THEN "invalid"
  ELSE IF e.id # "uuid" THEN "invalid"
  ELSE IF ~e.clientObject THEN "invalid"
  ELSE IF REQUIRED_CLIENT_FIELDS \ e.clientKeys # {} THEN "invalid"
  ELSE IF e.runtime = Unhashable THEN "TypeError"
  ELSE IF e.runtime \notin Runtimes THEN "invalid"
  ELSE IF ~e.payloadObject THEN "invalid"
  ELSE IF PayloadRequired(e.name) \ e.payloadKeys # {} THEN "invalid"
  ELSE "valid"

\* receive_event's status: 400 for a body that is no JSON or an invalid event,
\* 500 when validate raises, 200 for an event it stores.
receive_event_status(e) ==
  IF ~e.json THEN 400
  ELSE IF validate(e) = "invalid" THEN 400
  ELSE IF validate(e) = "TypeError" THEN 500
  ELSE 200

sinkFrame == <<oldVars, snap, sel, engines, pt, broker, collector, ptc, nat, bms>>

InitSink ==
  /\ AtRest
  /\ snap = NoSnap
  /\ sel = NoSel
  /\ NewAtRest("")

\* POST /api/events
ReceiveEvent(e) ==
  /\ Len(sink.store) < MaxStored
  /\ LET status == receive_event_status(e)
     IN sink' = [sink EXCEPT !.store = IF status = 200 THEN Append(@, e) ELSE @,
                            !.accepted = IF status = 200 THEN Append(@, e) ELSE @,
                            !.last = [op |-> "receive_event", event |-> e, status |-> status]]
  /\ UNCHANGED sinkFrame

\* capture.record_event(event), called by a test
RecordEvent(e) ==
  /\ Len(sink.capture) < MaxStored
  /\ sink' = [sink EXCEPT !.capture = Append(@, e),
                          !.last = [op |-> "record_event", event |-> e, status |-> 0]]
  /\ UNCHANGED sinkFrame

\* EventSinkServer.clear_events / clear: POST /api/events/clear, and the
\* capture is cleared only when that request did not answer 200.
ClearEvents(http_ok) ==
  /\ sink' = [sink EXCEPT !.store = IF http_ok THEN << >> ELSE @,
                          !.capture = IF http_ok THEN @ ELSE << >>,
                          !.accepted = << >>,
                          !.last = [op |-> "clear", event |-> << >>,
                                    status |-> IF http_ok THEN 200 ELSE 0]]
  /\ UNCHANGED sinkFrame

NextSink ==
  \/ \E e \in Bodies : ReceiveEvent(e)
  \/ \E e \in ValidEvents : RecordEvent(e)
  \/ \E http_ok \in BOOLEAN : ClearEvents(http_ok)

SpecSink == InitSink /\ [][NextSink]_vars

\* EventSinkServer.events
events == sink.capture

\* capture.get_events_by_probe(probe_id)
get_events_by_probe(probe_id) ==
  SelectSeq(sink.capture, LAMBDA e : "probeId" \in e.payloadKeys /\ e.probeId = probe_id)

\* An event with every required base, client and payload field, a name and a
\* runtime that are known.
Complete(e) ==
  /\ e.json /\ e.object
  /\ REQUIRED_BASE_FIELDS \subseteq e.keys
  /\ e.name \in VALID_EVENT_TYPES
  /\ e.clientObject /\ REQUIRED_CLIENT_FIELDS \subseteq e.clientKeys
  /\ e.runtime \in Runtimes
  /\ e.payloadObject /\ PayloadRequired(e.name) \subseteq e.payloadKeys

C29_Claimed ==
  /\ \A k \in DOMAIN sink.accepted :
       LET e == sink.accepted[k]
       IN /\ \E j \in DOMAIN events : events[j] = e
          /\ "probeId" \in e.payloadKeys =>
               \E j \in DOMAIN get_events_by_probe(e.probeId) :
                 get_events_by_probe(e.probeId)[j] = e
  /\ sink.last.op = "clear" => events = << >>

\* C29 witness: the sink answered 200 to a snapshot event of probe-1 and
\* stored it; EventSinkServer.events and get_events_by_probe are empty.
C29_Witness ==
  /\ sink.last.op = "receive_event" /\ sink.last.status = 200
  /\ sink.store = << ValidEvent("probe.hit.snapshot", "probe-1") >>
  /\ events = << >> /\ get_events_by_probe("probe-1") = << >>

\* ------------------------------------- one collector, snapshot after snapshot

MaxSnapshots == 2

RECURSIVE FrameLocalsSize(_, _, _, _, _, _, _)

\* self.cur_size after the loop of collect_frame_locals over f_locals, from
\* variable i on with n variables kept so far.
FrameLocalsSize(h, i, n, max_depth, max_properties, cur_size, max_size) ==
  LET items == h[1].items
  IN IF i > Len(items) THEN cur_size
     ELSE LET c == collect_variable_value(h, items[i], 0, max_depth, cur_size, max_size)
              m == IF c.raised \/ c.val = NoValue THEN n ELSE n + 1
          IN IF ~c.raised /\ m > max_properties THEN c.cur_size
             ELSE FrameLocalsSize(h, i + 1, m, max_depth, max_properties, c.cur_size, max_size)

\* collect(top_frame) of a frame without callers: a new tracker, the frame's
\* locals collected from the cur_size the collector has, and the snapshot.
collect(c) ==
  [c EXCEPT
     !.snapshots = Append(@, Container("frame",
                     FrameLocals(c.heap, 1, << >>, c.max_depth, c.max_props, c.cur_size,
                                 c.max_size))),
     !.cur_size = FrameLocalsSize(c.heap, 1, 0, c.max_depth, c.max_props, c.cur_size,
                                  c.max_size)]

\* SnapshotCollector() with the settings of SnapshotCollectorConfigManager, and
\* the frame it is going to be handed.
CollectorInputs ==
  { [NoCollector EXCEPT !.heap = h, !.max_depth = d, !.max_props = m, !.max_size = z] :
      h \in Heaps, d \in 1..MaxDepth, m \in 1..MaxItems, z \in {3, 50} }

InitCollector ==
  /\ AtRest
  /\ snap = NoSnap
  /\ sel = NoSel
  /\ NewAtRest("collector")
  /\ collector \in CollectorInputs

\* collector.collect(frame)
Collect ==
  /\ Len(collector.snapshots) < MaxSnapshots
  /\ collector' = collect(collector)
  /\ UNCHANGED <<oldVars, snap, sel, engines, pt, broker, sink, ptc, nat, bms>>

NextCollector == Collect

SpecCollector == InitCollector /\ [][NextCollector]_vars

\* C30 as claimed: every snapshot a collector produced of a frame is the one
\* a collector that produced none before produces of it.
C30_Claimed ==
  \A k \in DOMAIN collector.snapshots :
    collector.snapshots[k] =
      collect_frame_locals(collector.heap, collector.max_depth, collector.max_props,
                           collector.max_size)

\* C30 witness: a collector produced two snapshots of one frame; the first
\* holds variables and the second holds none.
C30_Witness ==
  /\ Len(collector.snapshots) = 2
  /\ collector.snapshots[1].items # << >>
  /\ collector.snapshots[2].items = << >>
  /\ collector.cur_size >= collector.max_size

\* ------------------------------------------ the control API: disabled points

\* C31 as claimed: once POST /points/disable of a point has been answered 200,
\* GET /points has no entry for that point with enabled = true.
C31_Claimed ==
  (managers /\ last.op = "disable_point" /\ last.status = 200) =>
    \A r \in Lookup(last.id) : ~r.enabled

\* C31 witness: a point its manager holds as disabled has just been disabled
\* with a 200, and GET /points lists it with enabled = true.
C31_Witness ==
  /\ managers /\ last.op = "disable_point" /\ last.status = 200
  /\ last.id \in DOMAIN probes /\ probes[last.id].disabled
  /\ \E r \in Lookup(last.id) : r.enabled

\* ------------------------------------ the engine selector: the version range

\* C32 as claimed: without an override and with the GIL enabled, get_engine
\* returns native on Python 3.8, 3.9 and 3.10, whatever the micro version, and
\* pytrace on every other version.
C32_Claimed ==
  (sel.op = "get_engine" /\ sel.override = << >> /\ gil_is_enabled(sel.gil)) =>
    sel.out.engine = IF sel.version[1] = 3 /\ sel.version[2] \in 8..10 THEN "native"
                     ELSE "pytrace"

\* C32 witness: Python 3.10.0 without an override and with the GIL enabled is
\* given pytrace.
C32_Witness ==
  /\ sel.op = "get_engine" /\ sel.override = << >> /\ gil_is_enabled(sel.gil)
  /\ sel.version = <<3, 10, 0>>
  /\ sel.out.engine = "pytrace"

\* ------------------------------------------- pytrace, thread against thread

MaxLines == 2

\* The lines of the traced file.  The callback of a probe registered at line l
\* is written l, so that a table entry [id, fn] tells where its probe is.
PtLines == 1..MaxLines

ptcFrame == <<oldVars, snap, sel, engines, pt, broker, sink, collector, nat, bms>>

InitPTC ==
  /\ AtRest
  /\ snap = NoSnap
  /\ sel = NoSel
  /\ NewAtRest("")

PTCLast(op, t, id, fn, line) == [op |-> op, thread |-> t, id |-> id, fn |-> fn, line |-> line]

\* Thread t is not inside the hook.
Outside(t) == ptc.th[t].pc = "idle"

\* start() on thread t
PtcStart(t) ==
  /\ Outside(t)
  /\ ptc' = [(IF ptc.active THEN ptc
              ELSE [ptc EXCEPT !.active = TRUE, !.hook[t] = TRUE, !.stopped = FALSE])
               EXCEPT !.last = PTCLast("start", t, 0, 0, 0)]
  /\ UNCHANGED ptcFrame

\* stop() on thread t: it takes no lock.
PtcStop(t) ==
  /\ Outside(t)
  /\ ptc' = [ptc EXCEPT !.active = FALSE, !.hook[t] = FALSE, !.stopped = TRUE,
                        !.last = PTCLast("stop", t, 0, 0, 0)]
  /\ UNCHANGED ptcFrame

\* set_logpoint(lp_id, file, line, fn) on thread t, once it has _LOCK: file
\* and line are not kept.
PtcSetLogpoint(t, id, line) ==
  /\ Outside(t)
  /\ CanAcquire(ptc.lock, t)
  /\ ptc' = [ptc EXCEPT !.callbacks = TableSet(@, id, line),
                        !.removed = @ \ {id},
                        !.raced = { p \in @ : p[1] # id },
                        !.last = PTCLast("set_logpoint", t, id, line, line)]
  /\ UNCHANGED ptcFrame

\* remove_logpoint(lp_id) on thread t, once it has _LOCK; raced keeps the
\* threads that were inside the hook when it returned.
PtcRemoveLogpoint(t, id) ==
  /\ Outside(t)
  /\ CanAcquire(ptc.lock, t)
  /\ ptc' = [ptc EXCEPT !.callbacks = TablePop(@, id),
                        !.removed = @ \cup {id},
                        !.raced = @ \cup { <<id, u>> : u \in { v \in Threads : ~Outside(v) } },
                        !.last = PTCLast("remove_logpoint", t, id, 0, 0)]
  /\ UNCHANGED ptcFrame

\* The interpreter calls _trace on thread t for a step at `line`: the test of
\* _ACTIVE and of the event.
HookEnter(t, event, line) ==
  /\ ptc.hook[t]
  /\ Outside(t)
  /\ ptc' = IF ~ptc.active \/ event \notin {"line", "call"}
              THEN [ptc EXCEPT !.last = PTCLast("_trace", t, 0, 0, line)]
              ELSE [ptc EXCEPT !.th[t] = [pc |-> "lock", i |-> 0, line |-> line],
                               !.last = PTCLast("enter", t, 0, 0, line)]
  /\ UNCHANGED ptcFrame

\* with _LOCK:
HookAcquire(t) ==
  /\ ptc.th[t].pc = "lock"
  /\ CanAcquire(ptc.lock, t)
  /\ ptc' = [ptc EXCEPT !.lock = t, !.th[t].pc = "iter", !.th[t].i = 1,
                        !.last = PTCLast("acquire", t, 0, 0, ptc.th[t].line)]
  /\ UNCHANGED ptcFrame

\* cb(frame, event, arg) for the next value of _CALLBACKS
HookCall(t) ==
  /\ ptc.th[t].pc = "iter"
  /\ ptc.th[t].i <= Len(ptc.callbacks)
  /\ LET cb == ptc.callbacks[ptc.th[t].i]
     IN ptc' = [ptc EXCEPT !.th[t].i = @ + 1,
                           !.last = PTCLast("callback", t, cb.id, cb.fn, ptc.th[t].line)]
  /\ UNCHANGED ptcFrame

\* The loop is over: _LOCK is released and _trace returns.
HookReturn(t) ==
  /\ ptc.th[t].pc = "iter"
  /\ ptc.th[t].i > Len(ptc.callbacks)
  /\ ptc' = [ptc EXCEPT !.lock = 0, !.th[t] = [pc |-> "idle", i |-> 0, line |-> 0],
                        !.raced = { p \in @ : p[2] # t },
                        !.last = PTCLast("_trace", t, 0, 0, ptc.th[t].line)]
  /\ UNCHANGED ptcFrame

NextPTC ==
  \E t \in Threads :
    \/ PtcStart(t)
    \/ PtcStop(t)
    \/ \E id \in CbIds, line \in PtLines : PtcSetLogpoint(t, id, line)
    \/ \E id \in CbIds : PtcRemoveLogpoint(t, id)
    \/ \E event \in {"line", "return"}, line \in PtLines : HookEnter(t, event, line)
    \/ HookAcquire(t)
    \/ HookCall(t)
    \/ HookReturn(t)

SpecPTC == InitPTC /\ [][NextPTC]_vars

\* C33 as claimed: a callback the hook calls for a step at a line is the
\* callback of a probe registered at that line.
C33_Claimed == ptc.last.op = "callback" => ptc.last.fn = ptc.last.line

\* C33 witness: for a step at line 1 the hook called the callback of the
\* probe registered at line 2.
C33_Witness ==
  /\ ptc.last.op = "callback"
  /\ ptc.last.line = 1 /\ ptc.last.fn = 2

\* C37: a callback the hook calls is not one whose id remove_logpoint has
\* taken out since it was last set, whatever the threads' steps were.
C37_RemovedNeverCalled == ptc.last.op = "callback" => ptc.last.id \notin ptc.removed

\* C37 witness: remove_logpoint(1) returned while another thread was inside
\* the hook, and that thread's hook has since called the callback of id 2.
C37_Witness ==
  /\ ptc.last.op = "callback" /\ ptc.last.id = 2
  /\ 1 \in ptc.removed
  /\ <<1, ptc.last.thread>> \in ptc.raced

\* C38 as claimed: from the return of stop() to the next start(), the hook
\* calls no callback on any thread.
C38_Claimed == ptc.last.op = "callback" => ~ptc.stopped

\* C38 witness: thread 1 was inside the hook when thread 2 stopped the engine,
\* and it has called a callback since.
C38_Witness ==
  /\ ptc.last.op = "callback" /\ ptc.last.thread = 1
  /\ ptc.stopped /\ ~ptc.active
  /\ ptc.hook[1]

\* ------------------------------------------------------- the native engine

natFrame == <<oldVars, snap, sel, engines, pt, broker, sink, collector, ptc, bms>>

\* The hosts: without cdbg_native, or with one that has or lacks
\* ClearConditionalBreakpoint.
InitNat ==
  /\ AtRest
  /\ snap = NoSnap
  /\ sel = NoSel
  /\ NewAtRest("nat")
  /\ nat \in { [NoNat EXCEPT !.cdbg = c, !.hasClear = h] : c, h \in BOOLEAN }
  /\ nat.hasClear => nat.cdbg

NatLast(op, id, path) == [op |-> op, id |-> id, path |-> path, called |-> {}]

\* native.start(): InitializeModule, or pytrace.start() when the import fails.
native_start ==
  /\ nat' = [(IF nat.cdbg THEN nat ELSE [nat EXCEPT !.active = TRUE, !.hook = TRUE])
               EXCEPT !.started = TRUE,
                      !.last = NatLast("start", 0, IF nat.cdbg THEN "native" ELSE "no module")]
  /\ UNCHANGED natFrame

\* native.set_logpoint(lp_id, file, line, fn); raises is whether
\* SetConditionalBreakpoint raises.
native_set_logpoint(id, raises) ==
  /\ raises => nat.cdbg
  /\ nat' = [(IF nat.cdbg /\ ~raises THEN [nat EXCEPT !.cookies = @ \cup {id}]
              ELSE [nat EXCEPT !.callbacks = @ \cup {id}])
               EXCEPT !.everSet = @ \cup {id},
                      !.last = NatLast("set_logpoint", id,
                                       IF ~nat.cdbg THEN "no module"
                                       ELSE IF raises THEN "native raised" ELSE "native")]
  /\ UNCHANGED natFrame

\* native.remove_logpoint(lp_id); raises is whether ClearConditionalBreakpoint
\* raises.  The cookie is deleted after the clear returned; every other path
\* is pytrace's remove_logpoint.
native_remove_logpoint(id, raises) ==
  /\ raises => (nat.cdbg /\ nat.hasClear /\ id \in nat.cookies)
  /\ nat' = [(IF nat.cdbg /\ id \in nat.cookies /\ nat.hasClear /\ ~raises
                THEN [nat EXCEPT !.cookies = @ \ {id}]
              ELSE [nat EXCEPT !.callbacks = @ \ {id}])
               EXCEPT !.last = NatLast("remove_logpoint", id,
                                       IF ~nat.cdbg THEN "no module"
                                       ELSE IF id \notin nat.cookies THEN "no cookie"
                                       ELSE IF ~nat.hasClear THEN "no clear function"
                                       ELSE IF raises THEN "native raised" ELSE "native")]
  /\ UNCHANGED natFrame

\* Traced code runs a line: the interpreter calls _trace where the hook is
\* installed, and _trace calls the callbacks when _ACTIVE is set.
TracedLine ==
  /\ nat' = [nat EXCEPT !.last = [NatLast("line", 0, "") EXCEPT
                                    !.called = IF nat.hook /\ nat.active THEN nat.callbacks
                                               ELSE {}]]
  /\ UNCHANGED natFrame

NextNat ==
  \/ native_start
  \/ \E id \in CbIds, raises \in BOOLEAN : native_set_logpoint(id, raises)
  \/ \E id \in CbIds, raises \in BOOLEAN : native_remove_logpoint(id, raises)
  \/ TracedLine

SpecNat == InitNat /\ [][NextNat]_vars

\* C34 as claimed: once the native engine is started on a host with
\* cdbg_native, a logpoint in the pytrace table is called when traced code
\* runs: the hook is installed and active.
C34_Claimed ==
  (nat.started /\ nat.cdbg /\ nat.callbacks # {}) =>
    /\ nat.active /\ nat.hook
    /\ nat.last.op = "line" => nat.last.called = nat.callbacks

\* C34 witness: the engine is started, SetConditionalBreakpoint raised for
\* logpoint 1, which is in the pytrace table, and on a traced line no callback
\* was called.
C34_Witness ==
  /\ nat.started /\ nat.cdbg
  /\ nat.callbacks = {1} /\ nat.cookies = {}
  /\ nat.last.op = "line" /\ nat.last.called = {}

\* C35 as claimed: when remove_logpoint(id) of an id that was set returns, on
\* any path, id is in neither table.
C35_Claimed ==
  (nat.last.op = "remove_logpoint" /\ nat.last.id \in nat.everSet) =>
    /\ nat.last.id \notin nat.cookies
    /\ nat.last.id \notin nat.callbacks

\* C35 witness: logpoint 1 was set natively and removed on a host whose
\* cdbg_native has no ClearConditionalBreakpoint: its cookie is still there.
C35_Witness ==
  /\ nat.last = NatLast("remove_logpoint", 1, "no clear function")
  /\ 1 \in nat.everSet
  /\ nat.cookies = {1} /\ nat.callbacks = {}

\* ------------------------------------------------ BrokerManager.instance()

MaxManagers == 4

bmsFrame == <<oldVars, snap, sel, engines, pt, broker, sink, collector, ptc, nat>>

InitManagers ==
  /\ AtRest
  /\ snap = NoSnap
  /\ sel = NoSel
  /\ NewAtRest("")

\* BrokerManager(): a new object with an event client (None when the sink's
\* health check failed), an event executor and a request executor of its own.
\* Objects are numbered in the order they are made.
NewManager(health) == Append(bms.made, [client |-> health, executors |-> 2])

\* BrokerManager.instance(): BrokerManager() if __instance is None else
\* __instance; nothing assigns __instance.
instance(b, health) ==
  IF b.instance = 0
    THEN [b EXCEPT !.made = NewManager(health),
                   !.last = [op |-> "instance", got |-> Len(b.made) + 1]]
    ELSE [b EXCEPT !.last = [op |-> "instance", got |-> b.instance]]

\* tracepointdebug.start(enable_control_api=False):
\* _broker_manager = BrokerManager.instance()
AgentInstance(health) ==
  /\ bms.agent = 0
  /\ Len(bms.made) < MaxManagers
  /\ bms' = [instance(bms, health) EXCEPT !.agent = instance(bms, health).last.got,
                                          !.last.op = "start"]
  /\ UNCHANGED bmsFrame

\* start_control_api(broker_manager=_broker_manager): control_api.broker_manager
\* is the agent's object, and ControlAPI.start assigns BrokerManager.instance()
\* over it.
ControlInstance(health) ==
  /\ bms.agent # 0
  /\ bms.control = 0
  /\ Len(bms.made) < MaxManagers
  /\ bms' = [instance(bms, health) EXCEPT !.control = instance(bms, health).last.got,
                                          !.last.op = "ControlAPI.start"]
  /\ UNCHANGED bmsFrame

\* Any other caller of BrokerManager.instance()
OtherInstance(health) ==
  /\ Len(bms.made) < MaxManagers
  /\ bms' = instance(bms, health)
  /\ UNCHANGED bmsFrame

NextManagers ==
  \E health \in BOOLEAN :
    \/ AgentInstance(health)
    \/ ControlInstance(health)
    \/ OtherInstance(health)

SpecManagers == InitManagers /\ [][NextManagers]_vars

\* C40 as claimed: however many calls of instance() were made, one
\* BrokerManager was constructed, and the agent and the control API hold the
\* same one.
C40_Claimed ==
  /\ Len(bms.made) <= 1
  /\ (bms.agent # 0 /\ bms.control # 0) => bms.agent = bms.control

\* C40 witness: after the agent's start and ControlAPI.start there are two
\* BrokerManagers, the agent's and the control API's.
C40_Witness ==
  /\ bms.last.op = "ControlAPI.start"
  /\ Len(bms.made) = 2
  /\ bms.agent = 1 /\ bms.control = 2

\* ------------------------------------ the control API: two removes at once

\* C39 as claimed: of two remove requests for one id that have both been
\* answered, one was answered 200 and the other 404 (or both 404, the id not
\* being registered); none was answered 500.
C39_Claimed ==
  \A t, u \in Threads :
    (/\ t # u
     /\ reqs[t].op = "remove_point" /\ reqs[u].op = "remove_point"
     /\ reqs[t].id = reqs[u].id
     /\ reqs[t].pc = "idle" /\ reqs[u].pc = "idle") =>
      {reqs[t].status, reqs[u].status} \in {{200, 404}, {404}}

\* C39 witness: two removes of id 1 ran at the same time; thread 1 was
\* answered 200 and thread 2 was answered 500.
C39_Witness ==
  /\ reqs[1].op = "remove_point" /\ reqs[2].op = "remove_point"
  /\ reqs[1].id = 1 /\ reqs[2].id = 1
  /\ reqs[1].pc = "idle" /\ reqs[2].pc = "idle"
  /\ reqs[1].status = 200 /\ reqs[2].status = 500

\* --------------------------------------- the engine package's own selection

\* engine/__init__.py: os.environ.get("TRACEPOINTDEBUG_ENGINE", "auto"),
\* compared as it is written, and sys.version_info >= (3, 11); native.py
\* imports whether or not cdbg_native exists.
engine_package(engine_override, py_version) ==
  LET engine_choice == IF engine_override = << >> THEN "auto" ELSE engine_override[1]
  IN IF engine_choice = "pytrace" \/ (engine_choice = "auto" /\ TupleLE(<<3, 11>>, py_version))
       THEN "pytrace"
       ELSE "native"

\* import tracepointdebug.engine.selector, which runs the package's
\* __init__, then get_engine()
ImportAndSelect ==
  /\ sel.op = "none"
  /\ sel' = [sel EXCEPT !.op = "import",
                        !.out = [bound |-> engine_package(sel.override, sel.version),
                                 engine |-> SelectedEngine]]
  /\ UNCHANGED <<now, rlVars, concVars, reqVars, snap, newVars, apiVars, regVars, histVars>>

NextImport == ImportAndSelect

SpecImport == InitSel /\ [][NextImport]_vars

\* C36 as claimed: the functions the engine package bound when it was
\* imported are those of the engine get_engine() returns.
C36_Claimed == sel.op = "import" => sel.out.bound = sel.out.engine

\* C36 witness: on Python 3.13 with the GIL off and
\* TRACEPOINTDEBUG_ENGINE=native the package bound native's functions and
\* get_engine() returns pytrace.
C36_Witness ==
  /\ sel.op = "import" /\ sel.gil = "off"
  /\ sel.version = <<3, 13, 0>> /\ sel.override = <<"native">>
  /\ sel.out = [bound |-> "native", engine |-> "pytrace"]

====
